---- MODULE Spec2Model ----
(***************************************************************************)
(* gcundo: operation log and cascading undo/redo engine.                   *)
(*                                                                         *)
(* The model follows the id-addressed engine of core/undo.js (second       *)
(* module of the file, lines 92-424), core/redo.js, the query helpers of   *)
(* core/sessions.js and the logger that is bundled at the end of           *)
(* core/diff-engine.js (lines 254-452).                                    *)
(*                                                                         *)
(* Texts are sequences of characters.  A JavaScript `undefined` payload    *)
(* and an absent file are sentinel sequences that contain no character of  *)
(* the alphabet.                                                           *)
(***************************************************************************)
EXTENDS Integers, Sequences, FiniteSets, TLC

VARIABLES log, fs, backups, last, nreq, history, monitor, writer

vars == <<log, fs, backups, last, nreq, history, monitor, writer>>

(* ---------------------------------------------------------------- bounds *)
MaxOps == 3
MaxRequests == 3

(* ------------------------------------------------------------ input sets *)
Files == {"a.txt"}
Texts == {<<>>, <<"a">>, <<"a", "a">>}
ReplaceStrings == {<<"a">>, <<"b">>}

Undefined == <<"undefined">>
NoFile == <<"ENOENT">>

(* ------------------------------------------------- logger (diff-engine.js) *)
OPERATION_TYPES == [FILE_CREATE |-> "file_create", FILE_EDIT |-> "file_edit",
                    FILE_DELETE |-> "file_delete",
                    COMMAND_EXECUTION |-> "command_execution"]

OPERATION_MODES == [FULL_CONTENT |-> "full_content",
                    STRING_REPLACE |-> "string_replace",
                    FILE_CREATE |-> "file_create",
                    FILE_DELETE |-> "file_delete", COMMAND |-> "command"]

UNDO_STATES == [ACTIVE |-> "active", UNDONE |-> "undone"]

\* JavaScript truthiness of a string payload: undefined and "" are falsy.
Falsy(x) == x = Undefined \/ x = <<>>

\* a || b
OrElse(a, b) == IF Falsy(a) THEN b ELSE a

\* generateOperationId: a fresh id; ids are the positions of creation.
generateOperationId == Len(log) + 1

\* new Date().toISOString() at the time of an append: the millisecond of the
\* previous append (dt = 0) or a later one (dt = 1).
Now(dt) ==
  LET ops == SelectSeq(log, LAMBDA line : "malformed" \notin DOMAIN line)
  IN IF ops = <<>> THEN 1 ELSE ops[Len(ops)].timestamp + dt

\* The fields a descriptor may leave out: an absent id or timestamp is 0, an
\* absent undoState, file or filePath is the empty string.
baseOp(operation, dt) ==
  [id |-> IF operation.id = 0 THEN generateOperationId ELSE operation.id,
   timestamp |-> IF operation.timestamp = 0 THEN Now(dt)
                 ELSE operation.timestamp,
   undoState |-> IF operation.undoState = "" THEN UNDO_STATES.ACTIVE
                 ELSE operation.undoState]

\* logOperation: the record that is appended for a descriptor `operation`.
\* A type that is none of OPERATION_TYPES takes the default branch, which
\* stores the descriptor's own fields over the base fields.
logOperation(operation, dt) ==
  LET b == baseOp(operation, dt) IN
  CASE operation.type = OPERATION_TYPES.FILE_EDIT ->
         IF operation.operation = OPERATION_MODES.STRING_REPLACE
         THEN [id |-> b.id, timestamp |-> b.timestamp, undoState |-> b.undoState,
               type |-> OPERATION_TYPES.FILE_EDIT, file |-> operation.file,
               operation |-> OPERATION_MODES.STRING_REPLACE,
               oldString |-> operation.oldString,
               newString |-> operation.newString,
               before |-> Undefined, after |-> Undefined]
         ELSE [id |-> b.id, timestamp |-> b.timestamp, undoState |-> b.undoState,
               type |-> OPERATION_TYPES.FILE_EDIT, file |-> operation.file,
               operation |-> OPERATION_MODES.FULL_CONTENT,
               oldString |-> Undefined, newString |-> Undefined,
               before |-> operation.before, after |-> operation.after]
    [] operation.type = OPERATION_TYPES.FILE_CREATE ->
         [id |-> b.id, timestamp |-> b.timestamp, undoState |-> b.undoState,
          type |-> OPERATION_TYPES.FILE_CREATE, file |-> operation.file,
          operation |-> OPERATION_MODES.FILE_CREATE,
          oldString |-> Undefined, newString |-> Undefined,
          before |-> Undefined,
          after |-> OrElse(operation.after, operation.content)]
    [] operation.type = OPERATION_TYPES.FILE_DELETE ->
         [id |-> b.id, timestamp |-> b.timestamp, undoState |-> b.undoState,
          type |-> OPERATION_TYPES.FILE_DELETE, file |-> operation.file,
          operation |-> OPERATION_MODES.FILE_DELETE,
          oldString |-> Undefined, newString |-> Undefined,
          before |-> OrElse(operation.before, operation.content),
          after |-> Undefined]
    [] operation.type = OPERATION_TYPES.COMMAND_EXECUTION ->
         [id |-> b.id, timestamp |-> b.timestamp, undoState |-> b.undoState,
          type |-> OPERATION_TYPES.COMMAND_EXECUTION, file |-> "",
          operation |-> OPERATION_MODES.COMMAND,
          oldString |-> Undefined, newString |-> Undefined,
          before |-> Undefined, after |-> Undefined]
    [] OTHER ->
         [id |-> b.id, timestamp |-> b.timestamp, undoState |-> b.undoState,
          type |-> operation.type, file |-> operation.file,
          operation |-> operation.operation,
          oldString |-> operation.oldString,
          newString |-> operation.newString,
          before |-> operation.before, after |-> operation.after,
          filePath |-> operation.filePath, content |-> operation.content]

\* A descriptor as the helper functions build it; absent keys are undefined.
Descriptor(type, file, mode, before, after, oldString, newString) ==
  [type |-> type, file |-> file, operation |-> mode, before |-> before,
   after |-> after, oldString |-> oldString, newString |-> newString,
   content |-> Undefined, filePath |-> "", id |-> 0, timestamp |-> 0,
   undoState |-> ""]

logFileEdit(filePath, before, after, oldString, newString, dt) ==
  IF ~Falsy(oldString) /\ ~Falsy(newString)
  THEN logOperation(Descriptor(OPERATION_TYPES.FILE_EDIT, filePath,
                               OPERATION_MODES.STRING_REPLACE, Undefined,
                               Undefined, oldString, newString), dt)
  ELSE logOperation(Descriptor(OPERATION_TYPES.FILE_EDIT, filePath,
                               OPERATION_MODES.FULL_CONTENT, before, after,
                               Undefined, Undefined), dt)

logFileCreate(filePath, content, dt) ==
  logOperation(Descriptor(OPERATION_TYPES.FILE_CREATE, filePath, Undefined,
                          Undefined, content, Undefined, Undefined), dt)

logFileDelete(filePath, content, dt) ==
  logOperation(Descriptor(OPERATION_TYPES.FILE_DELETE, filePath, Undefined,
                          content, Undefined, Undefined, Undefined), dt)

logCommandExecution(dt) ==
  logOperation(Descriptor(OPERATION_TYPES.COMMAND_EXECUTION, "", Undefined,
                          Undefined, Undefined, Undefined, Undefined), dt)

\* A line of the store that JSON.parse rejects.
MalformedLine == [malformed |-> TRUE]

IsParseable(line) == "malformed" \notin DOMAIN line

\* updateOperationUndoState writing back only the lines it has changed.
updateOperationUndoState_OnlyMatching(records, operationId, undoState) ==
  LET hit(line) == IsParseable(line) /\ line.id = operationId
      kept == SelectSeq(records, hit)
  IN [i \in 1..Len(kept) |-> [kept[i] EXCEPT !.undoState = undoState]]

\* updateOperationUndoState: rewrite the store with the undoState of every
\* record whose id matches; a line that does not parse is written back as
\* it is.
updateOperationUndoState(records, operationId, undoState) ==
  [i \in 1..Len(records) |->
     IF IsParseable(records[i]) /\ records[i].id = operationId
     THEN [records[i] EXCEPT !.undoState = undoState]
     ELSE records[i]]

(* ------------------------------------------------ queries (sessions.js) *)
\* loadOperations: every parseable record, in storage order; a line that
\* does not parse is reported and dropped.
loadOperations(records) == SelectSeq(records, IsParseable)

\* getActiveOperations: ACTIVE records and records without an undoState
\* (the empty string stands for the absent field).
getActiveOperations(records) ==
  LET IsActive(op) == op.undoState = UNDO_STATES.ACTIVE \/ op.undoState = ""
  IN SelectSeq(loadOperations(records), IsActive)

\* getUndoneOperations
getUndoneOperations(records) ==
  LET IsUndone(op) == op.undoState = UNDO_STATES.UNDONE
  IN SelectSeq(loadOperations(records), IsUndone)

\* getOperationById: the first record with that id, or none.
NoOperation == [id |-> 0]

getOperationById(records, operationId) ==
  LET ops == loadOperations(records)
      hits == {i \in 1..Len(ops) : ops[i].id = operationId}
  IN IF hits = {} THEN NoOperation
     ELSE ops[CHOOSE i \in hits : \A j \in hits : i <= j]

\* Array.prototype.sort with (a, b) => a.timestamp - b.timestamp: a stable
\* ascending sort (insertion of each element after the elements that are
\* not later than it).
RECURSIVE SortByTimestamp(_)
SortByTimestamp(ops) ==
  IF ops = <<>> THEN <<>>
  ELSE LET rest == SortByTimestamp(SubSeq(ops, 1, Len(ops) - 1))
           x == ops[Len(ops)]
           NotLater(op) == op.timestamp <= x.timestamp
           Later(op) == op.timestamp > x.timestamp
       IN SelectSeq(rest, NotLater) \o <<x>> \o SelectSeq(rest, Later)

\* Array.prototype.reverse
Reverse(s) == [i \in 1..Len(s) |-> s[Len(s) + 1 - i]]

\* getOperationsAfter: ACTIVE operations strictly later than the target,
\* in ascending timestamp order.
getOperationsAfter(records, targetOperation) ==
  LET After(op) == op.timestamp > targetOperation.timestamp
  IN SortByTimestamp(SelectSeq(getActiveOperations(records), After))

(* ----------------------------------------------------- strings (String) *)
\* String.prototype.indexOf: position of the first occurrence, 0 if none.
IndexOf(s, pat) ==
  LET hits == {i \in 1..(Len(s) - Len(pat) + 1) :
                 SubSeq(s, i, i + Len(pat) - 1) = pat}
  IN IF hits = {} THEN 0 ELSE CHOOSE i \in hits : \A j \in hits : i <= j

\* s with the occurrence of pat at position i replaced by rep.
ReplaceAt(s, i, pat, rep) ==
  SubSeq(s, 1, i - 1) \o rep \o SubSeq(s, i + Len(pat), Len(s))

\* GetSubstitution of String.prototype.replace for a string pattern (no
\* captures): in the replacement text $$ stands for $, $& for the matched
\* text, $` for the text before the match and $' for the text after it; any
\* other $ is itself.  The characters ` and ' are written "grave" and
\* "quote".
RECURSIVE GetSubstitution(_, _, _, _)
GetSubstitution(replacement, matched, prefix, suffix) ==
  IF replacement = <<>> THEN <<>>
  ELSE IF Head(replacement) = "$" /\ Len(replacement) >= 2
            /\ replacement[2] \in {"$", "&", "grave", "quote"}
       THEN (CASE replacement[2] = "$" -> <<"$">>
               [] replacement[2] = "&" -> matched
               [] replacement[2] = "grave" -> prefix
               [] OTHER -> suffix)
            \o GetSubstitution(SubSeq(replacement, 3, Len(replacement)),
                               matched, prefix, suffix)
       ELSE <<Head(replacement)>>
            \o GetSubstitution(Tail(replacement), matched, prefix, suffix)

\* String.prototype.replace(pat, rep) with a string pattern: the first
\* occurrence only, replaced by the substitution of rep; the text unchanged
\* when pat does not occur.
Replace(s, pat, rep) ==
  IF IndexOf(s, pat) = 0 THEN s
  ELSE LET i == IndexOf(s, pat)
           prefix == SubSeq(s, 1, i - 1)
           suffix == SubSeq(s, i + Len(pat), Len(s))
       IN prefix \o GetSubstitution(rep, pat, prefix, suffix) \o suffix

(* --------------------------------------------- undo/redo engine (undo.js) *)
\* The engine works on a world: the files, the stored log, the backup
\* directory, the filesystem and log events of the running request, and the
\* error that has been thrown ("none" while running normally).
World(files, records, bak) ==
  [fs |-> files, log |-> records, backups |-> bak, events |-> <<>>,
   thrown |-> "none"]

Event(operation, kind, w) ==
  [op |-> operation.id, kind |-> kind, file |-> operation.file,
   existed |-> IF operation.file \in DOMAIN w.fs
               THEN w.fs[operation.file] # NoFile ELSE FALSE]

Throw(w, kind) == [w EXCEPT !.thrown = kind]

existsSync(w, filePath) == w.fs[filePath] # NoFile

\* createBackup: copy the file's current content into the backup directory;
\* nothing when the file does not exist.
createBackup(w, operation) ==
  IF ~existsSync(w, operation.file) THEN w
  ELSE [w EXCEPT !.backups = Append(@, [file |-> operation.file,
                                         content |-> w.fs[operation.file]]),
                 !.events = Append(@, Event(operation, "backup", w))]

\* fs.writeFile
writeFile(w, operation, content) ==
  [w EXCEPT !.fs[operation.file] = content,
            !.events = Append(@, Event(operation, "write", w))]

\* fs.remove
remove(w, operation) ==
  [w EXCEPT !.fs[operation.file] = NoFile,
            !.events = Append(@, Event(operation, "remove", w))]

\* fs.readFile of a missing file rejects (ENOENT).
undoStringReplace(w, operation) ==
  LET currentContent == w.fs[operation.file]
      restoredContent == Replace(currentContent, operation.newString,
                                 operation.oldString)
  IN writeFile(createBackup(w, operation), operation, restoredContent)

undoFullContentEdit(w, operation) ==
  IF Falsy(operation.before) THEN Throw(w, "MissingPayload")
  ELSE writeFile(createBackup(w, operation), operation, operation.before)

undoFileEdit(w, operation) ==
  IF ~existsSync(w, operation.file) THEN Throw(w, "FileIOError")
  ELSE IF operation.operation = OPERATION_MODES.STRING_REPLACE
       THEN undoStringReplace(w, operation)
       ELSE undoFullContentEdit(w, operation)

redoStringReplace(w, operation) ==
  IF ~existsSync(w, operation.file) THEN Throw(w, "FileIOError")
  ELSE LET currentContent == w.fs[operation.file]
           redoneContent == Replace(currentContent, operation.oldString,
                                    operation.newString)
       IN writeFile(createBackup(w, operation), operation, redoneContent)

redoFullContentEdit(w, operation) ==
  IF Falsy(operation.after) THEN Throw(w, "MissingPayload")
  ELSE writeFile(createBackup(w, operation), operation, operation.after)

redoFileEdit(w, operation) ==
  IF operation.operation = OPERATION_MODES.STRING_REPLACE
  THEN redoStringReplace(w, operation)
  ELSE redoFullContentEdit(w, operation)

undoFileCreate(w, operation) ==
  IF existsSync(w, operation.file)
  THEN remove(createBackup(w, operation), operation)
  ELSE w

redoFileCreate(w, operation) ==
  IF Falsy(operation.after) THEN Throw(w, "MissingPayload")
  ELSE writeFile(w, operation, operation.after)

undoFileDelete(w, operation) ==
  IF Falsy(operation.before) THEN Throw(w, "MissingPayload")
  ELSE writeFile(w, operation, operation.before)

redoFileDelete(w, operation) ==
  IF existsSync(w, operation.file)
  THEN remove(createBackup(w, operation), operation)
  ELSE w

\* Commands are not reverted; a warning is printed.
\* undoCommandExecution that snapshots the working file before the warning.
undoCommandExecution_Snapshot(w, operation) ==
  [w EXCEPT !.backups = Append(@, [file |-> operation.file,
                                   content |-> <<>>]),
            !.events = @ \o <<Event(operation, "backup", w),
                              Event(operation, "warn", w)>>]

undoCommandExecution(w, operation) ==
  [w EXCEPT !.events = Append(@, Event(operation, "warn", w))]

redoCommandExecution(w, operation) ==
  [w EXCEPT !.events = Append(@, Event(operation, "warn", w))]

\* undoLegacyOperation: the default branch of performUndo, for a record
\* whose type is none of OPERATION_TYPES; a type it does not know has no
\* effect.
undoLegacyOperation(w, operation) ==
  IF operation.type = "file_edit" /\ ~Falsy(operation.before)
  THEN writeFile(createBackup(w, operation), operation, operation.before)
  ELSE IF operation.type = "file_create"
  THEN (IF existsSync(w, operation.file)
        THEN remove(createBackup(w, operation), operation) ELSE w)
  ELSE IF operation.type = "file_delete" /\ ~Falsy(operation.before)
  THEN writeFile(w, operation, operation.before)
  ELSE w

\* redoLegacyOperation
redoLegacyOperation(w, operation) ==
  IF operation.type = "file_edit" /\ ~Falsy(operation.after)
  THEN writeFile(createBackup(w, operation), operation, operation.after)
  ELSE IF operation.type = "file_create" /\ ~Falsy(operation.after)
  THEN writeFile(w, operation, operation.after)
  ELSE IF operation.type = "file_delete"
  THEN (IF existsSync(w, operation.file)
        THEN remove(createBackup(w, operation), operation) ELSE w)
  ELSE w

\* The state update at the end of performUndo / performRedo.
Mark(w, operation, undoState) ==
  [w EXCEPT !.log = updateOperationUndoState(@, operation.id, undoState),
            !.events = Append(@, Event(operation, "mark", w))]

\* performUndo that updates the state in a finally block.
performUndo_MarkAfterThrow(w, operation) ==
  LET applied ==
        CASE operation.type = OPERATION_TYPES.FILE_EDIT ->
               undoFileEdit(w, operation)
          [] operation.type = OPERATION_TYPES.FILE_CREATE ->
               undoFileCreate(w, operation)
          [] operation.type = OPERATION_TYPES.FILE_DELETE ->
               undoFileDelete(w, operation)
          [] operation.type = OPERATION_TYPES.COMMAND_EXECUTION ->
               undoCommandExecution(w, operation)
          [] OTHER -> undoLegacyOperation(w, operation)
  IN IF applied.thrown # "none"
     THEN Mark([applied EXCEPT !.events = Append(@, Event(operation, "throw",
                                                          w))],
               operation, UNDO_STATES.UNDONE)
     ELSE Mark(applied, operation, UNDO_STATES.UNDONE)

\* performUndo: the type's inverse effect, then the state update; an error of
\* the effect is rethrown and the state update is not reached.
performUndo(w, operation) ==
  LET applied ==
        CASE operation.type = OPERATION_TYPES.FILE_EDIT ->
               undoFileEdit(w, operation)
          [] operation.type = OPERATION_TYPES.FILE_CREATE ->
               undoFileCreate(w, operation)
          [] operation.type = OPERATION_TYPES.FILE_DELETE ->
               undoFileDelete(w, operation)
          [] operation.type = OPERATION_TYPES.COMMAND_EXECUTION ->
               undoCommandExecution(w, operation)
          [] OTHER -> undoLegacyOperation(w, operation)
  IN IF applied.thrown # "none"
     THEN [applied EXCEPT !.events = Append(@, Event(operation, "throw", w))]
     ELSE Mark(applied, operation, UNDO_STATES.UNDONE)

\* performRedo
performRedo(w, operation) ==
  LET applied ==
        CASE operation.type = OPERATION_TYPES.FILE_EDIT ->
               redoFileEdit(w, operation)
          [] operation.type = OPERATION_TYPES.FILE_CREATE ->
               redoFileCreate(w, operation)
          [] operation.type = OPERATION_TYPES.FILE_DELETE ->
               redoFileDelete(w, operation)
          [] operation.type = OPERATION_TYPES.COMMAND_EXECUTION ->
               redoCommandExecution(w, operation)
          [] OTHER -> redoLegacyOperation(w, operation)
  IN IF applied.thrown # "none"
     THEN [applied EXCEPT !.events = Append(@, Event(operation, "throw", w))]
     ELSE Mark(applied, operation, UNDO_STATES.ACTIVE)

\* The loop of undoOperation over the reversed cascading operations: each
\* one that was ACTIVE when the log was read is undone; a throw leaves the
\* loop.
RECURSIVE undoCascading(_, _)
undoCascading(w, ops) ==
  IF ops = <<>> \/ w.thrown # "none" THEN w
  ELSE undoCascading(IF Head(ops).undoState = UNDO_STATES.ACTIVE
                     THEN performUndo(w, Head(ops)) ELSE w,
                     Tail(ops))

\* undoOperation without the check of the target's state.
undoOperation_NoStateCheck(w, operationId) ==
  LET operation == getOperationById(w.log, operationId) IN
  IF operation.id = NoOperation.id THEN Throw(w, "OperationNotFound")
  ELSE LET cascadingOps == getOperationsAfter(w.log, operation)
           w1 == undoCascading(w, Reverse(cascadingOps))
       IN IF w1.thrown # "none" THEN w1 ELSE performUndo(w1, operation)

\* undoOperation(operationId)
undoOperation(w, operationId) ==
  LET operation == getOperationById(w.log, operationId) IN
  IF operation.id = NoOperation.id THEN Throw(w, "OperationNotFound")
  ELSE IF operation.undoState = UNDO_STATES.UNDONE
       THEN Throw(w, "AlreadyInState")
       ELSE LET cascadingOps == getOperationsAfter(w.log, operation)
                w1 == undoCascading(w, Reverse(cascadingOps))
            IN IF w1.thrown # "none" THEN w1 ELSE performUndo(w1, operation)

(* ------------------------------------------------------- redo (redo.js) *)
\* An argument is an operation id ("op_...") or an index; the index is used
\* as a 0-based position in the UNDONE operations sorted by timestamp.
IdArg(operationId) == [kind |-> "id", value |-> operationId]
IndexArg(index) == [kind |-> "index", value |-> index]

\* redoOperation without the check of the target's state.
redoOperation_NoStateCheck(w, arg) ==
  LET undoneOps == SortByTimestamp(getUndoneOperations(w.log))
      operation ==
        IF arg.kind = "id" THEN getOperationById(w.log, arg.value)
        ELSE IF arg.value < 0 \/ arg.value >= Len(undoneOps) THEN NoOperation
             ELSE undoneOps[arg.value + 1]
  IN IF operation.id = NoOperation.id
     THEN Throw(w, IF arg.kind = "id" THEN "OperationNotFound"
                   ELSE "InvalidIndex")
     ELSE performRedo(w, operation)

\* redoOperation(operationIdOrIndex)
redoOperation(w, arg) ==
  LET undoneOps == SortByTimestamp(getUndoneOperations(w.log))
      operation ==
        IF arg.kind = "id" THEN getOperationById(w.log, arg.value)
        ELSE IF arg.value < 0 \/ arg.value >= Len(undoneOps) THEN NoOperation
             ELSE undoneOps[arg.value + 1]
  IN IF operation.id = NoOperation.id
     THEN Throw(w, IF arg.kind = "id" THEN "OperationNotFound"
                   ELSE "InvalidIndex")
     ELSE IF operation.undoState = UNDO_STATES.ACTIVE
          THEN Throw(w, "AlreadyInState")
          ELSE performRedo(w, operation)

(* ---------------------------------------------------------------- state *)
NoRequest == [req |-> "none"]

\* A FileSystemMonitor after construction: not active, nothing cached, no
\* watcher notification waiting, no handler waiting for its readFile.
NoMonitor ==
  [isActive |-> FALSE, fileCache |-> [f \in Files |-> Undefined],
   events |-> <<>>, pending |-> <<>>]

\* No rewrite of the store is in progress: neither a state update nor a
\* removal has read the store without having written it back.
NoRewrite == [pc |-> "idle"]

Idle == [update |-> NoRewrite, remove |-> NoRewrite, undo |-> NoRewrite]

\* history[i] is the content of the files right after operation i was
\* applied and recorded.
\* What a request leaves behind for inspection: the request, its outcome,
\* the events of its run, the state it started from and, when the step
\* before it was a request with the same argument, that request.
Outcome(req, arg, w) ==
  [req |-> req, arg |-> arg, outcome |-> w.thrown, events |-> w.events,
   pre |-> [log |-> log, fs |-> fs, backups |-> backups],
   follows |-> IF last.req # "none" /\ last.arg = arg
               THEN [req |-> last.req, outcome |-> last.outcome]
               ELSE NoRequest]

Init ==
  /\ log = <<>>
  /\ fs = [f \in Files |-> NoFile]
  /\ backups = <<>>
  /\ last = NoRequest
  /\ nreq = 0
  /\ history = <<>>
  /\ monitor = NoMonitor
  /\ writer = Idle

(* ------------------------------------------------------------ recording *)
\* The session creates a file and the wrapper logs it (logFileCreate).
RecordCreate(f, content, dt) ==
  /\ Len(log) < MaxOps
  /\ fs[f] = NoFile
  /\ fs' = [fs EXCEPT ![f] = content]
  /\ log' = Append(log, logFileCreate(f, content, dt))
  /\ last' = NoRequest
  /\ history' = Append(history, fs')
  /\ UNCHANGED <<backups, nreq, monitor, writer>>

\* The session rewrites a file (logFileEdit with before/after).
RecordEdit(f, content, dt) ==
  /\ Len(log) < MaxOps
  /\ fs[f] # NoFile
  /\ fs[f] # content
  /\ fs' = [fs EXCEPT ![f] = content]
  /\ log' = Append(log, logFileEdit(f, fs[f], content, Undefined, Undefined, dt))
  /\ last' = NoRequest
  /\ history' = Append(history, fs')
  /\ UNCHANGED <<backups, nreq, monitor, writer>>

\* The session replaces one occurrence of oldString by newString
\* (logFileEdit with oldString/newString).
RecordStringReplace(f, i, oldString, newString, dt) ==
  /\ Len(log) < MaxOps
  /\ fs[f] # NoFile
  /\ oldString # <<>>
  /\ oldString # newString
  /\ i \in 1..Len(fs[f])
  /\ i + Len(oldString) - 1 <= Len(fs[f])
  /\ SubSeq(fs[f], i, i + Len(oldString) - 1) = oldString
  /\ fs' = [fs EXCEPT ![f] = ReplaceAt(fs[f], i, oldString, newString)]
  /\ log' = Append(log, logFileEdit(f, Undefined, Undefined, oldString,
                                    newString, dt))
  /\ last' = NoRequest
  /\ history' = Append(history, fs')
  /\ UNCHANGED <<backups, nreq, monitor, writer>>

\* The session deletes a file (logFileDelete).
RecordDelete(f, dt) ==
  /\ Len(log) < MaxOps
  /\ fs[f] # NoFile
  /\ fs' = [fs EXCEPT ![f] = NoFile]
  /\ log' = Append(log, logFileDelete(f, fs[f], dt))
  /\ last' = NoRequest
  /\ history' = Append(history, fs')
  /\ UNCHANGED <<backups, nreq, monitor, writer>>

\* The session runs a command (logCommandExecution).
RecordCommand(dt) ==
  /\ Len(log) < MaxOps
  /\ log' = Append(log, logCommandExecution(dt))
  /\ last' = NoRequest
  /\ history' = Append(history, fs)
  /\ UNCHANGED <<fs, backups, nreq, monitor, writer>>

(* ------------------------------------------------------------- requests *)
\* gcundo undo <id>
Undo(operationId) ==
  /\ nreq < MaxRequests
  /\ LET w == undoOperation(World(fs, log, backups), operationId) IN
       /\ fs' = w.fs
       /\ log' = w.log
       /\ backups' = w.backups
       /\ last' = Outcome("undo", IdArg(operationId), w)
  /\ nreq' = nreq + 1
  /\ UNCHANGED <<history, monitor, writer>>

\* gcundo redo <id|index>
Redo(arg) ==
  /\ nreq < MaxRequests
  /\ LET w == redoOperation(World(fs, log, backups), arg) IN
       /\ fs' = w.fs
       /\ log' = w.log
       /\ backups' = w.backups
       /\ last' = Outcome("redo", arg, w)
  /\ nreq' = nreq + 1
  /\ UNCHANGED <<history, monitor, writer>>

Ids == 1..(MaxOps + 1)
Indexes == {0 - 1, 0, 1}
Delays == {1}

Next ==
  \/ \E f \in Files, c \in Texts, dt \in Delays : RecordCreate(f, c, dt)
  \/ \E f \in Files, c \in Texts, dt \in Delays : RecordEdit(f, c, dt)
  \/ \E f \in Files, i \in 1..(MaxOps + 2), o \in ReplaceStrings,
        n \in ReplaceStrings, dt \in Delays :
       RecordStringReplace(f, i, o, n, dt)
  \/ \E f \in Files, dt \in Delays : RecordDelete(f, dt)
  \/ \E dt \in Delays : RecordCommand(dt)
  \/ \E id \in Ids : Undo(id)
  \/ \E id \in Ids : Redo(IdArg(id))
  \/ \E i \in Indexes : Redo(IndexArg(i))

Spec == Init /\ [][Next]_vars

TypeOK ==
  /\ \A i \in 1..Len(log) : log[i].undoState \in {"active", "undone"}
  /\ nreq \in 0..MaxRequests

(* --------------------------------------------------------------- claims *)
ACTIVE == UNDO_STATES.ACTIVE
UNDONE == UNDO_STATES.UNDONE

\* The last step was an undo/redo request addressed by an id that names a
\* record of the log the request started from.
ByIdOn(req) ==
  /\ last.req = req
  /\ last.arg.kind = "id"
  /\ getOperationById(last.pre.log, last.arg.value).id # NoOperation.id

PreTarget == getOperationById(last.pre.log, last.arg.value)

\* Position of the record with the given id in the log.
IndexOfId(records, operationId) ==
  CHOOSE i \in 1..Len(records) : records[i].id = operationId

\* The operations an event sequence touches, in order of first appearance
\* of the given kind.
RECURSIVE OpsOfKind(_, _)
OpsOfKind(events, kinds) ==
  IF events = <<>> THEN <<>>
  ELSE IF Head(events).kind \in kinds
       THEN <<Head(events).op>> \o OpsOfKind(Tail(events), kinds)
       ELSE OpsOfKind(Tail(events), kinds)

Processed == OpsOfKind(last.events, {"mark", "throw"})

SeqToSet(s) == {s[i] : i \in 1..Len(s)}

\* C1: Undo(target) by id on an ACTIVE operation leaves the target and every
\* operation that was ACTIVE with a strictly later timestamp UNDONE, and
\* changes the undoState of no operation with an earlier timestamp.
C1_UndoMarksTargetAndLater ==
  (ByIdOn("undo") /\ PreTarget.undoState = ACTIVE) =>
    /\ Len(log) = Len(last.pre.log)
    /\ \A i \in 1..Len(last.pre.log) :
         LET p == last.pre.log[i] IN
         /\ (p.id = PreTarget.id) => log[i].undoState = UNDONE
         /\ (p.undoState = ACTIVE /\ p.timestamp > PreTarget.timestamp)
              => log[i].undoState = UNDONE
         /\ (p.timestamp < PreTarget.timestamp)
              => log[i].undoState = p.undoState

\* The operations of the log are one file's create, delete, full-content and
\* string-replace edits.
SingleFileLog(records) ==
  \A i \in 1..Len(records) :
    /\ records[i].type # OPERATION_TYPES.COMMAND_EXECUTION
    /\ records[i].file = records[1].file

\* C2: for a sequence of operations recorded against a single file, Undo at
\* operation k followed by Redo at operation k leaves the file with exactly
\* the content it had right after operation k was originally applied.
C2_UndoRedoRoundTrip ==
  (/\ ByIdOn("redo")
   /\ nreq = 2
   /\ last.follows.req = "undo"
   /\ SingleFileLog(log)) =>
    LET k == IndexOfId(log, last.arg.value)
    IN fs[log[k].file] = history[k][log[k].file]

\* A create followed by full-content edits, each edit's before equal to the
\* previous operation's after, with increasing timestamps.
IsChain(records) ==
  /\ records # <<>>
  /\ records[1].type = OPERATION_TYPES.FILE_CREATE
  /\ \A i \in 2..Len(records) :
       /\ records[i].type = OPERATION_TYPES.FILE_EDIT
       /\ records[i].operation = OPERATION_MODES.FULL_CONTENT
       /\ records[i].file = records[1].file
       /\ records[i].timestamp > records[i - 1].timestamp
       /\ records[i].before = history[i - 1][records[1].file]


\* C3: on a chronological chain (a create followed by full-content edits),
\* Undo at operation k undoes the later operations newest-first and then
\* operation k, leaves the file with the content produced by operation k-1
\* and leaves operations 1..k-1 ACTIVE.
C3_ChainUndo ==
  (/\ ByIdOn("undo")
   /\ nreq = 1
   /\ IsChain(last.pre.log)) =>
    LET k == IndexOfId(log, last.arg.value)
        f == log[1].file
    IN /\ OpsOfKind(last.events, {"mark"}) =
            [i \in 1..(Len(log) - k + 1) |-> log[Len(log) + 1 - i].id]
       /\ fs[f] = IF k = 1 THEN NoFile ELSE history[k - 1][f]
       /\ \A i \in 1..(k - 1) : log[i].undoState = ACTIVE
       /\ \A i \in k..Len(log) : log[i].undoState = UNDONE

\* C4: an operation's undoState changes only from ACTIVE to UNDONE through
\* Undo and from UNDONE to ACTIVE through Redo; Redo of an already-ACTIVE
\* operation fails with an error and changes neither the log nor any file.
C4_StateMachine ==
  [][/\ Len(log') >= Len(log)
     /\ \A i \in 1..Len(log) :
          (log'[i].undoState # log[i].undoState) =>
            \/ /\ last'.req = "undo"
               /\ log[i].undoState = ACTIVE
               /\ log'[i].undoState = UNDONE
            \/ /\ last'.req = "redo"
               /\ log[i].undoState = UNDONE
               /\ log'[i].undoState = ACTIVE
     /\ (/\ nreq' = nreq + 1
         /\ last'.req = "redo"
         /\ last'.arg.kind = "id"
         /\ getOperationById(log, last'.arg.value).id # NoOperation.id
         /\ getOperationById(log, last'.arg.value).undoState = ACTIVE) =>
          /\ last'.outcome = "AlreadyInState"
          /\ log' = log
          /\ fs' = fs
          /\ backups' = backups]_vars

\* A Redo of an ACTIVE operation was refused while another operation is
\* UNDONE (it went from ACTIVE to UNDONE through an earlier Undo).
C4_Witness ==
  /\ ByIdOn("redo")
  /\ PreTarget.undoState = ACTIVE
  /\ last.outcome = "AlreadyInState"
  /\ \E i \in 1..Len(log) : log[i].undoState = UNDONE

C6_RedoCascades ==
  (ByIdOn("redo") /\ PreTarget.undoState = UNDONE /\ last.outcome = "none") =>
    LET later == {i \in 1..Len(last.pre.log) :
                    /\ last.pre.log[i].undoState = UNDONE
                    /\ last.pre.log[i].timestamp >= PreTarget.timestamp}
    IN /\ \A i \in later : log[i].undoState = ACTIVE
       /\ SeqToSet(Processed) = {log[i].id : i \in later}
       /\ Processed # <<>> /\ Processed[1] = PreTarget.id
       /\ \A a, b \in 1..Len(Processed) :
            a < b => getOperationById(log, Processed[a]).timestamp
                       <= getOperationById(log, Processed[b]).timestamp

\* The operations of the undo cascade of the last request: the target and
\* every operation that was ACTIVE and strictly later.
UndoCascadeIds ==
  {last.pre.log[i].id : i \in
     {j \in 1..Len(last.pre.log) :
        \/ last.pre.log[j].id = PreTarget.id
        \/ /\ last.pre.log[j].undoState = ACTIVE
           /\ last.pre.log[j].timestamp > PreTarget.timestamp}}

\* C7: when a step of an undo cascade fails with a file I/O error, the
\* cascade still attempts every remaining step; no operation of the cascade
\* is skipped.
C7_CascadeContinuesAfterFailure ==
  (/\ ByIdOn("undo")
   /\ PreTarget.undoState = ACTIVE
   /\ last.outcome = "FileIOError") =>
    UndoCascadeIds \subseteq SeqToSet(Processed)

\* C8: every operation processed by an undo cascade is marked UNDONE, in
\* processing order, whether or not its file effect was applied.
C8_ProcessedAreMarked ==
  (ByIdOn("undo") /\ PreTarget.undoState = ACTIVE) =>
    /\ OpsOfKind(last.events, {"mark"}) = Processed
    /\ \A i \in 1..Len(Processed) :
         getOperationById(log, Processed[i]).undoState = UNDONE

\* C9: an Undo or Redo request that fails with OperationNotFound,
\* InvalidIndex, AlreadyInState or MissingPayload fails before any file,
\* backup or log record has been modified.
C9_FailsBeforeMutation ==
  (/\ last.req # "none"
   /\ last.outcome \in {"OperationNotFound", "InvalidIndex", "AlreadyInState",
                        "MissingPayload"}) =>
    /\ fs = last.pre.fs
    /\ backups = last.pre.backups
    /\ log = last.pre.log

\* C10: in every undo or redo step that overwrites or deletes a file that
\* currently exists, a backup copy of the file's current content is written
\* before the file is modified.
C10_BackupBeforeMutation ==
  (last.req # "none") =>
    \A i \in 1..Len(last.events) :
      (last.events[i].kind \in {"write", "remove"} /\ last.events[i].existed)
        => /\ i > 1
           /\ last.events[i - 1].kind = "backup"
           /\ last.events[i - 1].op = last.events[i].op
           /\ last.events[i - 1].file = last.events[i].file

(* ------------------------------------------------------------------------ *)
(* The index-addressed program: the logger of part_003, the undo of         *)
(* core/undo.js lines 17-88, the redo of part_002 and the command line of   *)
(* part_000 lines 135-200.  Its records carry no undoState, its backups are  *)
(* named after the operation id and the direction.                          *)
(* ------------------------------------------------------------------------ *)
MaxLegacyOps == 3
MaxLegacyRequests == 3
LegacyTexts == {<<"a">>, <<"b">>}
LegacyDelays == {0, 1}

\* logOperation of part_003: the caller's fields, then an id made of the
\* current millisecond and the current time.
legacyLogOperation(op, dt) == [op EXCEPT !.id = Now(dt), !.timestamp = Now(dt)]

\* fs.copy(filePath, backupDir/name): the file of that name is replaced when
\* it exists.
copy(bak, name, content) ==
  IF \E i \in 1..Len(bak) : bak[i].name = name
  THEN [i \in 1..Len(bak) |->
          IF bak[i].name = name THEN [bak[i] EXCEPT !.content = content]
          ELSE bak[i]]
  ELSE Append(bak, [name |-> name, content |-> content])

\* Step 1 of the loop body: backup of the current state if the file exists.
legacyBackup(w, op, direction) ==
  IF ~existsSync(w, op.file) THEN w
  ELSE [w EXCEPT !.backups = copy(@, [op |-> op.id, direction |-> direction],
                                  w.fs[op.file]),
                 !.events = Append(@, Event(op, "backup", w))]

\* Step 2 of the loop body of undoOperation(index).
legacyUndoStep(w, op) ==
  LET w1 == legacyBackup(w, op, "undo") IN
  CASE op.type = "file_edit" -> writeFile(w1, op, op.before)
    [] op.type = "file_create" ->
         IF existsSync(w1, op.file) THEN remove(w1, op) ELSE w1
    [] op.type = "file_delete" -> writeFile(w1, op, op.before)
    [] OTHER -> w1

\* Step 2 of the loop body of redoOperation(index).
legacyRedoStep(w, op) ==
  LET w1 == legacyBackup(w, op, "redo") IN
  CASE op.type = "file_edit" -> writeFile(w1, op, op.after)
    [] op.type = "file_create" -> writeFile(w1, op, OrElse(op.after, <<>>))
    [] op.type = "file_delete" ->
         IF existsSync(w1, op.file) THEN remove(w1, op) ELSE w1
    [] OTHER -> w1

\* for (let i = ops.length - 1; i >= index; i--), positions counted from 0.
RECURSIVE legacyUndoLoop(_, _, _, _)
legacyUndoLoop(w, ops, i, index) ==
  IF i < index THEN w
  ELSE legacyUndoLoop(legacyUndoStep(w, ops[i + 1]), ops, i - 1, index)

\* for (let i = index; i < ops.length; i++)
RECURSIVE legacyRedoLoop(_, _, _)
legacyRedoLoop(w, ops, i) ==
  IF i >= Len(ops) THEN w
  ELSE legacyRedoLoop(legacyRedoStep(w, ops[i + 1]), ops, i + 1)

\* The checks both functions make before the loop: the log file exists,
\* every line parses, the index is a position of the log.
legacyRefusal(w, index) ==
  IF w.log = <<>> THEN "LogUnavailable"
  ELSE IF \E i \in 1..Len(w.log) : ~IsParseable(w.log[i])
       THEN "MalformedRecord"
       ELSE IF index < 0 \/ index >= Len(w.log) THEN "InvalidIndex"
            ELSE "none"

\* undoOperation(index) of core/undo.js lines 17-88.
legacyUndoOperation(w, index) ==
  IF legacyRefusal(w, index) # "none" THEN Throw(w, legacyRefusal(w, index))
  ELSE legacyUndoLoop(w, w.log, Len(w.log) - 1, index)

\* redoOperation(index) of part_002.
legacyRedoOperation(w, index) ==
  IF legacyRefusal(w, index) # "none" THEN Throw(w, legacyRefusal(w, index))
  ELSE legacyRedoLoop(w, w.log, index)

\* The wrapped tool creates, rewrites or deletes a file and logs it.
LegacyRecordCreate(f, content, dt) ==
  /\ Len(log) < MaxLegacyOps
  /\ fs[f] = NoFile
  /\ fs' = [fs EXCEPT ![f] = content]
  /\ log' = Append(log, legacyLogOperation(
                          Descriptor("file_create", f, "", Undefined, content,
                                     Undefined, Undefined), dt))
  /\ last' = NoRequest
  /\ UNCHANGED <<backups, nreq, history, monitor, writer>>

LegacyRecordEdit(f, content, dt) ==
  /\ Len(log) < MaxLegacyOps
  /\ fs[f] # NoFile
  /\ fs[f] # content
  /\ fs' = [fs EXCEPT ![f] = content]
  /\ log' = Append(log, legacyLogOperation(
                          Descriptor("file_edit", f, "", fs[f], content,
                                     Undefined, Undefined), dt))
  /\ last' = NoRequest
  /\ UNCHANGED <<backups, nreq, history, monitor, writer>>

LegacyRecordDelete(f, dt) ==
  /\ Len(log) < MaxLegacyOps
  /\ fs[f] # NoFile
  /\ fs' = [fs EXCEPT ![f] = NoFile]
  /\ log' = Append(log, legacyLogOperation(
                          Descriptor("file_delete", f, "", fs[f], Undefined,
                                     Undefined, Undefined), dt))
  /\ last' = NoRequest
  /\ UNCHANGED <<backups, nreq, history, monitor, writer>>

\* A line that does not parse gets into the store (an append cut short, a
\* manual edit): the case the readers' try/catch is there for.
CorruptLine ==
  /\ Len(log) < MaxLegacyOps
  /\ \A i \in 1..Len(log) : IsParseable(log[i])
  /\ log' = Append(log, MalformedLine)
  /\ last' = NoRequest
  /\ UNCHANGED <<fs, backups, nreq, history, monitor, writer>>

\* gcundo undo <n>: undoOperation(n - 1)
LegacyUndo(n) ==
  /\ nreq < MaxLegacyRequests
  /\ LET w == legacyUndoOperation(World(fs, log, backups), n - 1) IN
       /\ fs' = w.fs
       /\ log' = w.log
       /\ backups' = w.backups
       /\ last' = Outcome("legacy-undo", IndexArg(n - 1), w)
  /\ nreq' = nreq + 1
  /\ UNCHANGED <<history, monitor, writer>>

\* gcundo redo <n>: redoOperation(n - 1)
LegacyRedo(n) ==
  /\ nreq < MaxLegacyRequests
  /\ LET w == legacyRedoOperation(World(fs, log, backups), n - 1) IN
       /\ fs' = w.fs
       /\ log' = w.log
       /\ backups' = w.backups
       /\ last' = Outcome("legacy-redo", IndexArg(n - 1), w)
  /\ nreq' = nreq + 1
  /\ UNCHANGED <<history, monitor, writer>>

LegacyPositions == 0..(MaxLegacyOps + 1)

NextLegacy ==
  \/ \E f \in Files, c \in LegacyTexts, dt \in LegacyDelays :
       LegacyRecordCreate(f, c, dt)
  \/ \E f \in Files, c \in LegacyTexts, dt \in LegacyDelays :
       LegacyRecordEdit(f, c, dt)
  \/ \E f \in Files, dt \in LegacyDelays : LegacyRecordDelete(f, dt)
  \/ CorruptLine
  \/ \E n \in LegacyPositions : LegacyUndo(n)
  \/ \E n \in LegacyPositions : LegacyRedo(n)

SpecLegacy == Init /\ [][NextLegacy]_vars

\* C11: each applied undo/redo step stores its snapshot under the name
\* <operationId>-undo.bak or <operationId>-redo.bak, and a snapshot that an
\* earlier cascade has written is still there, with the same content, after
\* any later cascade (stated for logs whose ids are all different).
C11_SnapshotNamedAndKept ==
  (/\ last.req \in {"legacy-undo", "legacy-redo"}
   /\ \A i, j \in 1..Len(log) :
        (IsParseable(log[i]) /\ IsParseable(log[j]) /\ log[i].id = log[j].id)
          => i = j) =>
    /\ \A i \in 1..Len(backups) :
         /\ \E j \in 1..Len(log) :
              IsParseable(log[j]) /\ log[j].id = backups[i].name.op
         /\ backups[i].name.direction =
              (IF last.req = "legacy-undo" THEN "undo" ELSE "redo")
            \/ i <= Len(last.pre.backups)
    /\ \A i \in 1..Len(last.pre.backups) :
         /\ i <= Len(backups)
         /\ backups[i] = last.pre.backups[i]

\* C12: for a recorded FileCreate with content c, for every text c, Undo of
\* the operation leaves the file absent and a Redo right after it recreates
\* the file with exactly the content c.
C12_CreateUndoRedo ==
  (/\ ByIdOn("redo")
   /\ last.follows.req = "undo"
   /\ last.follows.outcome = "none"
   /\ PreTarget.type = OPERATION_TYPES.FILE_CREATE) =>
    LET k == IndexOfId(log, last.arg.value)
        f == PreTarget.file
    IN /\ last.pre.fs[f] = NoFile
       /\ last.outcome = "none"
       /\ fs[f] = history[k][f]

\* C13: for a recorded full-content FileEdit with before b and after a, for
\* every pair of texts b and a, Undo of the operation (no later operation
\* being ACTIVE, the file being there) leaves the file with exactly b, and a
\* Redo right after it leaves the file with exactly a.
C13_EditUndoRedo ==
  /\ (/\ ByIdOn("undo")
      /\ PreTarget.undoState = ACTIVE
      /\ PreTarget.type = OPERATION_TYPES.FILE_EDIT
      /\ PreTarget.operation = OPERATION_MODES.FULL_CONTENT
      /\ getOperationsAfter(last.pre.log, PreTarget) = <<>>
      /\ last.pre.fs[PreTarget.file] # NoFile) =>
       /\ last.outcome = "none"
       /\ fs[PreTarget.file] = PreTarget.before
  /\ (/\ ByIdOn("redo")
      /\ last.follows.req = "undo"
      /\ last.follows.outcome = "none"
      /\ PreTarget.type = OPERATION_TYPES.FILE_EDIT
      /\ PreTarget.operation = OPERATION_MODES.FULL_CONTENT) =>
       /\ last.outcome = "none"
       /\ fs[PreTarget.file] = PreTarget.after

(* ------------------------------------------------------------------------ *)
(* Automatic capture: DiffEngine (core/diff-engine.js lines 5-251) and      *)
(* FileSystemMonitor (core/session.js lines 72-468), with the id-addressed  *)
(* undo/redo running against the log the monitor writes.                    *)
(* ------------------------------------------------------------------------ *)
MaxMonitorOps == 2
MaxMonitorRequests == 1
MaxEvents == 1
MaxHandled == 2

\* The contents of the watched files: runs of one character, shorter than
\* EDIT_THRESHOLD.
MonitorTexts == {<<>>, <<"d">>, <<"d", "d">>}

EDIT_THRESHOLD == 3
maxFileSize == 1048576
fileExtensions == {".js", ".json", ".md", ".txt"}

\* path.extname of the files of the model.
extname(filePath) == IF filePath = "a.txt" THEN ".txt" ELSE ""

isWatchableFile(filePath) == extname(filePath) \in fileExtensions

\* A descriptor as DiffEngine builds it: an upper-case type, the path under
\* filePath, the whole text under content, the time of the analysis.
DiffDescriptor(type, filePath, content, oldString, newString, dt) ==
  [type |-> type, file |-> "", operation |-> "", before |-> Undefined,
   after |-> Undefined, oldString |-> oldString, newString |-> newString,
   content |-> content, filePath |-> filePath, id |-> 0,
   timestamp |-> Now(dt), undoState |-> ""]

\* Length of the longest common prefix of two texts.
RECURSIVE CommonPrefix(_, _)
CommonPrefix(a, b) ==
  IF a = <<>> \/ b = <<>> \/ Head(a) # Head(b) THEN 0
  ELSE 1 + CommonPrefix(Tail(a), Tail(b))

\* Length of the longest common suffix of two texts.
CommonSuffix(a, b) == CommonPrefix(Reverse(a), Reverse(b))

\* The common parts of two texts: <<i, j, n>> when the n characters of a
\* from position i are the n characters of b from position j.
CommonParts(a, b) ==
  {c \in (1..Len(a)) \X (1..Len(b)) \X (1..Len(a)) :
     /\ c[1] + c[3] - 1 <= Len(a)
     /\ c[2] + c[3] - 1 <= Len(b)
     /\ SubSeq(a, c[1], c[1] + c[3] - 1) = SubSeq(b, c[2], c[2] + c[3] - 1)}

\* groupDiffsIntoEdits over the script of fast-diff(a, b), a being the part
\* of the old content from offset position on: the EQUAL runs are the common
\* prefix, the common suffix and the longest common part of what is between
\* them, and each maximal run of DELETE and INSERT between two EQUAL runs
\* makes one edit, at the offset of its first character in the old content.
\* This is fast-diff's script for the contents of the model, whose changed
\* parts have no character in common.
RECURSIVE EditsFrom(_, _, _)
EditsFrom(a, b, position) ==
  IF a = b THEN <<>>
  ELSE IF CommonPrefix(a, b) > 0
  THEN LET p == CommonPrefix(a, b)
       IN EditsFrom(SubSeq(a, p + 1, Len(a)), SubSeq(b, p + 1, Len(b)),
                    position + p)
  ELSE IF CommonSuffix(a, b) > 0
  THEN LET s == CommonSuffix(a, b)
       IN EditsFrom(SubSeq(a, 1, Len(a) - s), SubSeq(b, 1, Len(b) - s),
                    position)
  ELSE IF CommonParts(a, b) = {}
  THEN <<[position |-> position, oldText |-> a, newText |-> b]>>
  ELSE LET longest == {c \in CommonParts(a, b) :
                         \A d \in CommonParts(a, b) : d[3] <= c[3]}
           first == CHOOSE c \in longest :
                      \A d \in longest :
                        c[1] < d[1] \/ (c[1] = d[1] /\ c[2] <= d[2])
       IN EditsFrom(SubSeq(a, 1, first[1] - 1), SubSeq(b, 1, first[2] - 1),
                    position)
          \o EditsFrom(SubSeq(a, first[1] + first[3], Len(a)),
                       SubSeq(b, first[2] + first[3], Len(b)),
                       position + first[1] + first[3] - 1)

groupDiffsIntoEdits(oldContent, newContent) ==
  EditsFrom(oldContent, newContent, 0)

\* isSignificantEdit; no text of the model has white space, so the trimmed
\* texts are the texts.
isSignificantEdit(edit) ==
  /\ ~(Len(edit.oldText) < EDIT_THRESHOLD /\ Len(edit.newText) < EDIT_THRESHOLD)
  /\ edit.oldText # edit.newText

\* extractStringBasedEdits: one FILE_EDIT per significant edit, or the
\* whole-file FILE_EDIT when no edit is significant.
extractStringBasedEdits(filePath, oldContent, newContent, dt) ==
  LET edits == SelectSeq(groupDiffsIntoEdits(oldContent, newContent),
                         isSignificantEdit)
  IN IF edits = <<>>
     THEN <<DiffDescriptor("FILE_EDIT", filePath, Undefined, oldContent,
                           newContent, dt)>>
     ELSE [i \in 1..Len(edits) |->
             DiffDescriptor("FILE_EDIT", filePath, Undefined,
                            edits[i].oldText, edits[i].newText, dt)]

\* analyzeChanges(filePath, oldContent, newContent); null is Undefined.  Two
\* different falsy contents reach extractStringBasedEdits, which throws on
\* null.split or finds no difference; the error is caught and the result is
\* empty.
analyzeChanges(filePath, oldContent, newContent, dt) ==
  IF Falsy(oldContent) /\ ~Falsy(newContent)
  THEN <<DiffDescriptor("FILE_CREATE", filePath, newContent, Undefined,
                        Undefined, dt)>>
  ELSE IF ~Falsy(oldContent) /\ Falsy(newContent)
  THEN <<DiffDescriptor("FILE_DELETE", filePath, oldContent, Undefined,
                        Undefined, dt)>>
  ELSE IF oldContent = newContent THEN <<>>
  ELSE IF Falsy(oldContent) THEN <<>>
  ELSE extractStringBasedEdits(filePath, oldContent, newContent, dt)

\* The loop `for (const operation of operations) logger.logOperation(...)`;
\* with texts shorter than EDIT_THRESHOLD an analysis yields at most one
\* descriptor.
logOperations(operations, dt) ==
  IF operations = <<>> THEN log
  ELSE Append(log, logOperation(operations[1], dt))

\* What the watcher reports for a change of the tree while it is active.
Notify(kind, filePath) ==
  IF monitor.isActive /\ Len(monitor.events) < MaxEvents
  THEN [monitor EXCEPT !.events = Append(@, [kind |-> kind,
                                             file |-> filePath])]
  ELSE monitor

\* What a handled notification leaves for inspection: the event, the cached
\* content it found and the records it appended.
Handled(kind, filePath, cached, operations) ==
  [kind |-> kind, file |-> filePath, cached |-> cached,
   first |-> Len(log) + 1, count |-> Len(operations)]

\* stop() that closes the watcher whatever isActive says.
stop_NoCheck(m) ==
  [monitor |-> [m EXCEPT !.isActive = FALSE, !.events = <<>>],
   result |-> TRUE]

\* start(): false and no effect while active; otherwise the cache gets the
\* content of every watchable file of the tree (an entry of a file that is
\* gone stays), a new watcher is set up and isActive becomes true.
start(m, tree) ==
  IF m.isActive THEN [monitor |-> m, result |-> FALSE]
  ELSE [monitor |->
          [m EXCEPT !.isActive = TRUE,
                    !.fileCache = [f \in Files |->
                                     IF isWatchableFile(f) /\ tree[f] # NoFile
                                     THEN tree[f] ELSE m.fileCache[f]],
                    !.events = <<>>],
        result |-> TRUE]

\* stop(): false and no effect while not active; otherwise the watcher is
\* closed, which drops what it had not delivered, and isActive becomes
\* false.  A handler that is waiting for its readFile is not touched.
stop(m) ==
  IF ~m.isActive THEN [monitor |-> m, result |-> FALSE]
  ELSE [monitor |-> [m EXCEPT !.isActive = FALSE, !.events = <<>>],
        result |-> TRUE]

\* A successful start().
MonitorStart ==
  /\ ~monitor.isActive
  /\ monitor' = start(monitor, fs).monitor
  /\ last' = NoRequest
  /\ UNCHANGED <<log, fs, backups, nreq, history, writer>>

\* A successful stop().
MonitorStop ==
  /\ monitor.isActive
  /\ monitor' = stop(monitor).monitor
  /\ last' = NoRequest
  /\ UNCHANGED <<log, fs, backups, nreq, history, writer>>

\* A tool writes a file of the tree.
ToolWrite(f, content) ==
  /\ fs[f] # content
  /\ fs' = [fs EXCEPT ![f] = content]
  /\ monitor' = Notify(IF fs[f] = NoFile THEN "add" ELSE "change", f)
  /\ last' = NoRequest
  /\ UNCHANGED <<log, backups, nreq, history, writer>>

\* A tool removes a file of the tree.
ToolUnlink(f) ==
  /\ fs[f] # NoFile
  /\ fs' = [fs EXCEPT ![f] = NoFile]
  /\ monitor' = Notify("unlink", f)
  /\ last' = NoRequest
  /\ UNCHANGED <<log, backups, nreq, history, writer>>

\* handleFileAdd(filePath)
handleFileAdd(dt) ==
  /\ monitor.events # <<>>
  /\ Head(monitor.events).kind = "add"
  /\ LET filePath == Head(monitor.events).file
         content == fs[filePath]
         operations == analyzeChanges(filePath, Undefined, content, dt)
     IN IF ~isWatchableFile(filePath) \/ content = NoFile
           \/ Len(content) > maxFileSize
        THEN /\ monitor' = [monitor EXCEPT !.events = Tail(@)]
             /\ UNCHANGED <<log, history>>
        ELSE /\ Len(log) + Len(operations) <= MaxMonitorOps
             /\ Len(history) < MaxHandled
             /\ log' = logOperations(operations, dt)
             /\ history' = Append(history, Handled("add", filePath, Undefined,
                                                   operations))
             /\ monitor' = [monitor EXCEPT !.events = Tail(@),
                                           !.fileCache[filePath] = content]
  /\ last' = NoRequest
  /\ UNCHANGED <<fs, backups, nreq, writer>>

\* handleFileChange(filePath)
handleFileChange(dt) ==
  /\ monitor.events # <<>>
  /\ Head(monitor.events).kind = "change"
  /\ LET filePath == Head(monitor.events).file
         newContent == fs[filePath]
         cached == monitor.fileCache[filePath]
         oldContent == IF cached = Undefined THEN <<>> ELSE cached
         operations == analyzeChanges(filePath, oldContent, newContent, dt)
     IN IF ~isWatchableFile(filePath) \/ newContent = NoFile
           \/ Len(newContent) > maxFileSize \/ operations = <<>>
        THEN /\ monitor' = [monitor EXCEPT !.events = Tail(@)]
             /\ UNCHANGED <<log, history>>
        ELSE /\ Len(log) + Len(operations) <= MaxMonitorOps
             /\ Len(history) < MaxHandled
             /\ log' = logOperations(operations, dt)
             /\ history' = Append(history, Handled("change", filePath, cached,
                                                   operations))
             /\ monitor' = [monitor EXCEPT !.events = Tail(@),
                                           !.fileCache[filePath] = newContent]
  /\ last' = NoRequest
  /\ UNCHANGED <<fs, backups, nreq, writer>>

\* handleFileDelete(filePath)
handleFileDelete(dt) ==
  /\ monitor.events # <<>>
  /\ Head(monitor.events).kind = "unlink"
  /\ LET filePath == Head(monitor.events).file
         cached == monitor.fileCache[filePath]
         oldContent == IF cached = Undefined THEN <<>> ELSE cached
         operations == IF Falsy(oldContent) THEN <<>>
                       ELSE analyzeChanges(filePath, oldContent, Undefined, dt)
     IN IF ~isWatchableFile(filePath)
        THEN /\ monitor' = [monitor EXCEPT !.events = Tail(@)]
             /\ UNCHANGED <<log, history>>
        ELSE /\ Len(log) + Len(operations) <= MaxMonitorOps
             /\ Len(history) < MaxHandled
             /\ log' = logOperations(operations, dt)
             /\ history' = Append(history, Handled("unlink", filePath, cached,
                                                   operations))
             /\ monitor' = [monitor EXCEPT !.events = Tail(@),
                                           !.fileCache[filePath] = Undefined]
  /\ last' = NoRequest
  /\ UNCHANGED <<fs, backups, nreq, writer>>

\* The notifications the watcher gets from the file effects of a request.
RECURSIVE NotifyAll(_, _)
NotifyAll(m, events) ==
  IF events = <<>> THEN m
  ELSE LET e == Head(events)
           kind == IF e.kind = "remove" THEN "unlink"
                   ELSE IF e.existed THEN "change" ELSE "add"
       IN NotifyAll(IF e.kind \in {"write", "remove"} /\ m.isActive
                       /\ Len(m.events) < MaxEvents
                    THEN [m EXCEPT !.events = Append(@, [kind |-> kind,
                                                         file |-> e.file])]
                    ELSE m,
                    Tail(events))

\* gcundo undo <id>, the monitor watching
MonitoredUndo(operationId) ==
  /\ nreq < MaxMonitorRequests
  /\ LET w == undoOperation(World(fs, log, backups), operationId) IN
       /\ fs' = w.fs
       /\ log' = w.log
       /\ backups' = w.backups
       /\ last' = Outcome("undo", IdArg(operationId), w)
       /\ monitor' = NotifyAll(monitor, w.events)
  /\ nreq' = nreq + 1
  /\ UNCHANGED <<history, writer>>

\* gcundo redo <id>, the monitor watching
MonitoredRedo(operationId) ==
  /\ nreq < MaxMonitorRequests
  /\ LET w == redoOperation(World(fs, log, backups), IdArg(operationId)) IN
       /\ fs' = w.fs
       /\ log' = w.log
       /\ backups' = w.backups
       /\ last' = Outcome("redo", IdArg(operationId), w)
       /\ monitor' = NotifyAll(monitor, w.events)
  /\ nreq' = nreq + 1
  /\ UNCHANGED <<history, writer>>

MonitorIds == 1..MaxMonitorOps

NextMonitor ==
  \/ MonitorStart
  \/ MonitorStop
  \/ \E f \in Files, c \in MonitorTexts : ToolWrite(f, c)
  \/ \E f \in Files : ToolUnlink(f)
  \/ \E dt \in Delays : handleFileAdd(dt)
  \/ \E dt \in Delays : handleFileChange(dt)
  \/ \E dt \in Delays : handleFileDelete(dt)
  \/ \E id \in MonitorIds : MonitoredUndo(id)
  \/ \E id \in MonitorIds : MonitoredRedo(id)

SpecMonitor == Init /\ [][NextMonitor]_vars

\* The handled notification that appended the record at position i.
HandledFor(i) ==
  CHOOSE h \in SeqToSet(history) : h.first <= i /\ i < h.first + h.count

\* The removals of a file with a non-empty cached content that the monitor
\* has handled.
HandledRemovals ==
  {h \in SeqToSet(history) : h.kind = "unlink" /\ ~Falsy(h.cached)}

\* C14: when a monitored file whose cached content is a non-empty d is
\* removed while the monitor is active, exactly one record is appended, and
\* Undo of that record (ACTIVE, the file still absent) finds before = d in
\* it and puts the file back with content d.
C14_CapturedDeleteUndo ==
  /\ \A h \in HandledRemovals : h.count = 1
  /\ (/\ ByIdOn("undo")
      /\ PreTarget.undoState = ACTIVE
      /\ \E h \in HandledRemovals :
           h.count = 1 /\ h.first = IndexOfId(log, PreTarget.id)
             /\ last.pre.fs[h.file] = NoFile) =>
       LET h == HandledFor(IndexOfId(log, PreTarget.id))
       IN /\ PreTarget.before = h.cached
          /\ last.outcome = "none"
          /\ fs[h.file] = h.cached

\* C15: Undo and Redo never add, remove or reorder log records and change no
\* field other than undoState: after a request the log holds the records it
\* held before, in the same order, each with the same payload.
C15_UndoRedoFrame ==
  (last.req \in {"undo", "redo"}) =>
    /\ Len(log) = Len(last.pre.log)
    /\ \A i \in 1..Len(log) :
         [log[i] EXCEPT !.undoState = last.pre.log[i].undoState]
           = last.pre.log[i]

\* An Undo went through a cascade: it changed the state of two records and
\* the content of a file.
C15_Witness ==
  /\ last.req = "undo"
  /\ last.outcome = "none"
  /\ Len(OpsOfKind(last.events, {"mark"})) >= 2
  /\ fs # last.pre.fs
  /\ log # last.pre.log

(* ------------------------------------------------------------------------ *)
(* The writers of the store, each in its own process: the monitor appends   *)
(* (logOperation, one appendFileSync), `gcundo undo/redo` updates a state   *)
(* (updateOperationUndoState: readFileSync, then writeFileSync) and         *)
(* `gcundo delete` removes a record (removeOperationFromLog: readFileSync,  *)
(* an awaited backup of the log, then writeFileSync).  Nothing locks the    *)
(* file, so the reads and writes of different processes interleave.         *)
(* In this specification `history` is the store as the completed writes,    *)
(* applied one at a time in the order of their completion, would leave it.  *)
(* ------------------------------------------------------------------------ *)
MaxWriterOps == 2
MaxRewrites == 2

\* removeOperationFromLog: the lines without the records of that id; a line
\* that does not parse is kept.
removeOperationFromLog(lines, operationId) ==
  LET keep(line) == ~IsParseable(line) \/ line.id # operationId
  IN SelectSeq(lines, keep)

\* The monitor appends the record of a captured change.
CaptureAppend(f, content, dt) ==
  /\ Len(history) < MaxWriterOps
  /\ LET record == logOperation(DiffDescriptor("FILE_CREATE", f, content,
                                               Undefined, Undefined, dt), dt)
     IN /\ log' = Append(log, record)
        /\ history' = Append(history, record)
  /\ UNCHANGED <<fs, backups, last, nreq, monitor, writer>>

\* updateOperationUndoState, up to and including its readFileSync.
UpdateStateRead(operationId, undoState) ==
  /\ nreq < MaxRewrites
  /\ writer.update.pc = "idle"
  /\ log # <<>>
  /\ writer' = [writer EXCEPT !.update = [pc |-> "read", lines |-> log,
                                          id |-> operationId,
                                          undoState |-> undoState]]
  /\ nreq' = nreq + 1
  /\ UNCHANGED <<log, fs, backups, last, history, monitor>>

\* updateOperationUndoState, from the map over the lines it has read to its
\* writeFileSync, which is skipped when no record had the id.
UpdateStateWrite ==
  /\ writer.update.pc = "read"
  /\ LET u == writer.update
         updated == \E i \in 1..Len(u.lines) :
                      IsParseable(u.lines[i]) /\ u.lines[i].id = u.id
     IN /\ log' = IF updated
                  THEN updateOperationUndoState(u.lines, u.id, u.undoState)
                  ELSE log
        /\ history' = updateOperationUndoState(history, u.id, u.undoState)
  /\ writer' = [writer EXCEPT !.update = NoRewrite]
  /\ UNCHANGED <<fs, backups, last, nreq, monitor>>

\* removeOperationFromLog, up to the await of createLogBackup; it throws
\* before that when no line was filtered out.
RemoveRead(operationId) ==
  /\ nreq < MaxRewrites
  /\ writer.remove.pc = "idle"
  /\ log # <<>>
  /\ writer' = IF Len(removeOperationFromLog(log, operationId)) = Len(log)
               THEN writer
               ELSE [writer EXCEPT !.remove = [pc |-> "read", lines |-> log,
                                               id |-> operationId]]
  /\ nreq' = nreq + 1
  /\ UNCHANGED <<log, fs, backups, last, history, monitor>>

\* removeOperationFromLog, its writeFileSync of the filtered lines.
RemoveWrite ==
  /\ writer.remove.pc = "read"
  /\ log' = removeOperationFromLog(writer.remove.lines, writer.remove.id)
  /\ history' = removeOperationFromLog(history, writer.remove.id)
  /\ writer' = [writer EXCEPT !.remove = NoRewrite]
  /\ UNCHANGED <<fs, backups, last, nreq, monitor>>

WriterIds == 1..MaxWriterOps

NextWriters ==
  \/ \E f \in Files, c \in LegacyTexts, dt \in Delays : CaptureAppend(f, c, dt)
  \/ \E id \in WriterIds, st \in {UNDO_STATES.ACTIVE, UNDO_STATES.UNDONE} :
       UpdateStateRead(id, st)
  \/ UpdateStateWrite
  \/ \E id \in WriterIds : RemoveRead(id)
  \/ RemoveWrite

SpecWriters == Init /\ [][NextWriters]_vars

\* C16: when an append runs concurrently with a state update or a log edit,
\* the writers are serialized: the store is what the completed writes,
\* taken one at a time, leave; no appended record is lost or duplicated and
\* no state update is overwritten.
C16_WritersSerialized == log = history

\* C17: after any sequence of appends, two of them in the same millisecond
\* included, no two records of the store share an id.
C17_UniqueIds ==
  \A i, j \in 1..Len(log) :
    (IsParseable(log[i]) /\ IsParseable(log[j]) /\ log[i].id = log[j].id)
      => i = j

\* C18: after any sequence of appends, undos and redos every record of the
\* store has an undoState that is exactly ACTIVE or UNDONE.
C18_StateDefined ==
  \A i \in 1..Len(log) :
    IsParseable(log[i]) =>
      log[i].undoState \in {UNDO_STATES.ACTIVE, UNDO_STATES.UNDONE}

\* C19: a malformed line in the store is never fatal: an Undo or Redo whose
\* position names one of the parseable records is not refused because of
\* the malformed line, and the malformed line stays where it is.
C19_MalformedNeverFatal ==
  (/\ last.req \in {"legacy-undo", "legacy-redo"}
   /\ last.arg.value >= 0
   /\ last.arg.value < Len(loadOperations(last.pre.log))) =>
     /\ last.outcome # "MalformedRecord"
     /\ \A i \in 1..Len(last.pre.log) :
          ~IsParseable(last.pre.log[i]) =>
            i <= Len(log) /\ log[i] = last.pre.log[i]

(* ------------------------------------------------------------------------ *)
(* The command line with a position as the argument of undo.                *)
(* ------------------------------------------------------------------------ *)
\* undoOperation(arg) with a position: the argument is handed to
\* getOperationById as it is; the ids of the store are "op_..." strings, so
\* no record has a numeral as its id and the operation is not found.
undoOperationAt(w, index) == Throw(w, "OperationNotFound")

\* gcundo undo <n>
UndoAt(index) ==
  /\ nreq < MaxRequests
  /\ LET w == undoOperationAt(World(fs, log, backups), index) IN
       /\ fs' = w.fs
       /\ log' = w.log
       /\ backups' = w.backups
       /\ last' = Outcome("undo", IndexArg(index), w)
  /\ nreq' = nreq + 1
  /\ UNCHANGED <<history, monitor, writer>>

NextCli ==
  \/ Next
  \/ \E i \in Indexes : UndoAt(i)

SpecCli == Init /\ [][NextCli]_vars

\* The view a position is resolved against: the ACTIVE operations for Undo,
\* the UNDONE ones for Redo, sorted by timestamp.
PositionView ==
  SortByTimestamp(IF last.req = "undo" THEN getActiveOperations(last.pre.log)
                  ELSE getUndoneOperations(last.pre.log))

\* C20: a target given as a position is resolved against the sorted
\* ACTIVE-only view for Undo and the sorted UNDONE-only view for Redo: a
\* position inside the view (whether counted from 0 or from 1) is not
\* refused as unknown, and a position outside it fails and mutates nothing.
C20_PositionResolved ==
  (last.req \in {"undo", "redo"} /\ last.arg.kind = "index") =>
    /\ (last.arg.value >= 1 /\ last.arg.value < Len(PositionView)) =>
         last.outcome \notin {"OperationNotFound", "InvalidIndex"}
    /\ (last.arg.value < 0 \/ last.arg.value > Len(PositionView)) =>
         /\ last.outcome # "none"
         /\ log = last.pre.log /\ fs = last.pre.fs
         /\ backups = last.pre.backups

\* C21: the index typed on the command line is 1-based: `redo i` acts on the
\* i-th entry of the sorted UNDONE view, so index 1 designates its first
\* entry and the view's length its last.
C21_TypedIndexOneBased ==
  (/\ last.req = "redo" /\ last.arg.kind = "index"
   /\ last.arg.value >= 1 /\ last.arg.value <= Len(PositionView)) =>
     /\ last.outcome # "InvalidIndex"
     /\ last.outcome = "none" =>
          getOperationById(log, PositionView[last.arg.value].id).undoState
            = UNDO_STATES.ACTIVE

(* ------------------------------------------------------------------------ *)
(* DiffEngine.analyzeChanges as a function of its arguments.                *)
(* ------------------------------------------------------------------------ *)
MaxRun == 4

\* Runs of one character: for two of them fast-diff's script is the one
\* groupDiffsIntoEdits is modelled on.
RECURSIVE Run(_, _)
Run(c, n) == IF n = 0 THEN <<>> ELSE <<c>> \o Run(c, n - 1)

DiffTexts == {Run("d", n) : n \in 0..MaxRun} \cup {Run("e", n) : n \in 1..MaxRun}

\* A content argument: a text or null.
DiffContents == DiffTexts \cup {Undefined}

\* A filePath argument.
DiffFiles == Files \cup {"b.md"}

\* diffEngine.analyzeChanges(filePath, oldContent, newContent)
Analyze(filePath, oldContent, newContent, dt) ==
  /\ last' = [req |-> "analyze",
              arg |-> [filePath |-> filePath, oldContent |-> oldContent,
                       newContent |-> newContent],
              outcome |-> "none",
              operations |-> analyzeChanges(filePath, oldContent, newContent,
                                            dt)]
  /\ UNCHANGED <<log, fs, backups, nreq, history, monitor, writer>>

NextDiff ==
  \E f \in DiffFiles, old \in DiffContents, new \in DiffContents,
     dt \in Delays :
    Analyze(f, old, new, dt)

SpecDiff == Init /\ [][NextDiff]_vars

\* C22: for every text x, analyzeChanges(path, null, x) is exactly one
\* create-type record whose content is x, analyzeChanges(path, x, null) is
\* exactly one delete-type record whose content is x, and
\* analyzeChanges(path, x, x) is the empty list.
C22_CreateDeleteSame ==
  (last.req = "analyze") =>
    LET old == last.arg.oldContent
        new == last.arg.newContent
        ops == last.operations
    IN /\ (old = Undefined /\ new # Undefined) =>
            /\ Len(ops) = 1
            /\ ops[1].type = "FILE_CREATE" /\ ops[1].content = new
       /\ (old # Undefined /\ new = Undefined) =>
            /\ Len(ops) = 1
            /\ ops[1].type = "FILE_DELETE" /\ ops[1].content = old
       /\ (old # Undefined /\ new = old) => ops = <<>>

\* C23: for every pair of non-null contents old and new with old # new,
\* analyzeChanges returns a non-empty list of FILE_EDIT records only.
C23_RealChangeIsEdit ==
  (/\ last.req = "analyze"
   /\ last.arg.oldContent # Undefined /\ last.arg.newContent # Undefined
   /\ last.arg.oldContent # last.arg.newContent) =>
     /\ last.operations # <<>>
     /\ \A i \in 1..Len(last.operations) :
          last.operations[i].type = "FILE_EDIT"

(* ------------------------------------------------------------------------ *)
(* The life cycle of one FileSystemMonitor: start() and stop() called in    *)
(* any state, and the handlers of 'add' and 'change' in the two parts their *)
(* `await fs.readFile` cuts them into.  The callbacks of setupEventHandlers *)
(* call the handlers without awaiting them, and stop() does not wait for a  *)
(* handler that has started.                                                *)
(* ------------------------------------------------------------------------ *)
MaxCalls == 2

\* What start() or stop() returned, with the monitor it was called on.
Returned(req, r) ==
  [req |-> req, outcome |-> IF r.result THEN "none" ELSE "refused",
   pre |-> [monitor |-> monitor, log |-> log, fs |-> fs]]

\* monitor.start()
Start ==
  /\ nreq < MaxCalls
  /\ LET r == start(monitor, fs) IN
       /\ monitor' = r.monitor
       /\ last' = Returned("start", r)
  /\ nreq' = nreq + 1
  /\ UNCHANGED <<log, fs, backups, history, writer>>

\* monitor.stop()
Stop ==
  /\ nreq < MaxCalls
  /\ LET r == stop(monitor) IN
       /\ monitor' = r.monitor
       /\ last' = Returned("stop", r)
  /\ nreq' = nreq + 1
  /\ UNCHANGED <<log, fs, backups, history, writer>>

\* handleFileAdd / handleFileChange up to `await fs.readFile(filePath)`.
AwaitReadFile ==
  /\ monitor.events # <<>>
  /\ Head(monitor.events).kind \in {"add", "change"}
  /\ Len(monitor.pending) < MaxEvents
  /\ monitor' =
       [monitor EXCEPT !.events = Tail(@),
                       !.pending =
                         IF isWatchableFile(Head(monitor.events).file)
                         THEN Append(@, Head(monitor.events)) ELSE @]
  /\ last' = NoRequest
  /\ UNCHANGED <<log, fs, backups, nreq, history, writer>>

\* handleFileAdd from the completion of its readFile.
ResumeFileAdd(dt) ==
  /\ monitor.pending # <<>>
  /\ Head(monitor.pending).kind = "add"
  /\ LET filePath == Head(monitor.pending).file
         content == fs[filePath]
         operations == analyzeChanges(filePath, Undefined, content, dt)
     IN IF content = NoFile \/ Len(content) > maxFileSize
        THEN /\ monitor' = [monitor EXCEPT !.pending = Tail(@)]
             /\ UNCHANGED <<log, history>>
        ELSE /\ Len(log) + Len(operations) <= MaxMonitorOps
             /\ Len(history) < MaxHandled
             /\ log' = logOperations(operations, dt)
             /\ history' = Append(history, Handled("add", filePath, Undefined,
                                                   operations))
             /\ monitor' = [monitor EXCEPT !.pending = Tail(@),
                                           !.fileCache[filePath] = content]
  /\ last' = NoRequest
  /\ UNCHANGED <<fs, backups, nreq, writer>>

\* handleFileChange from the completion of its readFile.
ResumeFileChange(dt) ==
  /\ monitor.pending # <<>>
  /\ Head(monitor.pending).kind = "change"
  /\ LET filePath == Head(monitor.pending).file
         newContent == fs[filePath]
         cached == monitor.fileCache[filePath]
         oldContent == IF cached = Undefined THEN <<>> ELSE cached
         operations == analyzeChanges(filePath, oldContent, newContent, dt)
     IN IF newContent = NoFile \/ Len(newContent) > maxFileSize
           \/ operations = <<>>
        THEN /\ monitor' = [monitor EXCEPT !.pending = Tail(@)]
             /\ UNCHANGED <<log, history>>
        ELSE /\ Len(log) + Len(operations) <= MaxMonitorOps
             /\ Len(history) < MaxHandled
             /\ log' = logOperations(operations, dt)
             /\ history' = Append(history, Handled("change", filePath, cached,
                                                   operations))
             /\ monitor' = [monitor EXCEPT !.pending = Tail(@),
                                           !.fileCache[filePath] = newContent]
  /\ last' = NoRequest
  /\ UNCHANGED <<fs, backups, nreq, writer>>

NextLifecycle ==
  \/ Start
  \/ Stop
  \/ \E f \in Files, c \in MonitorTexts \ {<<>>} : ToolWrite(f, c)
  \/ \E f \in Files : ToolUnlink(f)
  \/ AwaitReadFile
  \/ \E dt \in Delays : ResumeFileAdd(dt)
  \/ \E dt \in Delays : ResumeFileChange(dt)
  \/ \E dt \in Delays : handleFileDelete(dt)

SpecLifecycle == Init /\ [][NextLifecycle]_vars

\* C24: the monitor is a two-state machine: start() succeeds only when
\* inactive and makes it active; start() when already active fails and
\* changes nothing; stop() succeeds only when active and makes it inactive;
\* stop() when inactive fails and changes nothing.
C24_TwoStateMachine ==
  /\ (last.req = "start") =>
       IF last.pre.monitor.isActive
       THEN /\ last.outcome = "refused"
            /\ monitor = last.pre.monitor
            /\ log = last.pre.log /\ fs = last.pre.fs
       ELSE last.outcome = "none" /\ monitor.isActive
  /\ (last.req = "stop") =>
       IF last.pre.monitor.isActive
       THEN last.outcome = "none" /\ ~monitor.isActive
       ELSE /\ last.outcome = "refused"
            /\ monitor = last.pre.monitor
            /\ log = last.pre.log /\ fs = last.pre.fs

\* A start() refused by a monitor that is active and has logged a change.
C24_Witness ==
  /\ last.req = "start" /\ last.outcome = "refused"
  /\ monitor.isActive
  /\ log # <<>>

\* C25: after stop() has returned the monitor appends no further record to
\* the log.
C25_NoAppendAfterStop ==
  [][(~monitor.isActive) => (log' = log)]_vars

\* What a request did in the name of the operation with the given id.
EventsOf(operationId) ==
  LET mine(e) == e.op = operationId
      evs == SelectSeq(last.events, mine)
  IN [i \in 1..Len(evs) |-> evs[i].kind]

\* C26: Undo and Redo of a CommandExecution operation write, delete and back
\* up no file; they only flip that operation's undoState and surface a
\* warning.
C26_CommandOnlyFlips ==
  (last.req \in {"undo", "redo"}) =>
    /\ \A i \in 1..Len(last.pre.log) :
         LET p == last.pre.log[i] IN
         (p.type = OPERATION_TYPES.COMMAND_EXECUTION /\ EventsOf(p.id) # <<>>)
           => /\ EventsOf(p.id) = <<"warn", "mark">>
              /\ log[i] = [p EXCEPT !.undoState =
                                      IF last.req = "undo"
                                      THEN UNDO_STATES.UNDONE
                                      ELSE UNDO_STATES.ACTIVE]
              /\ p.undoState # log[i].undoState
    /\ (/\ ByIdOn(last.req)
        /\ PreTarget.type = OPERATION_TYPES.COMMAND_EXECUTION
        /\ Len(last.events) = Len(EventsOf(PreTarget.id))) =>
          fs = last.pre.fs /\ backups = last.pre.backups

\* An Undo of a command that cascaded over a later file operation.
C26_Witness ==
  /\ ByIdOn("undo") /\ last.outcome = "none"
  /\ PreTarget.type = OPERATION_TYPES.COMMAND_EXECUTION
  /\ EventsOf(PreTarget.id) = <<"warn", "mark">>
  /\ Len(OpsOfKind(last.events, {"mark"})) >= 2
  /\ fs # last.pre.fs

(* ------------------------------------------------------------------------ *)
(* undoOperation in the two parts its first await cuts it into, with        *)
(* `gcundo delete <id>` of another process in between.                      *)
(* ------------------------------------------------------------------------ *)
\* gcundo delete <id>: deleteOperation, which removes the record from the
\* log (removeOperationFromLog); nothing when no record has the id.
DeleteOperation(operationId) ==
  /\ nreq < MaxRequests
  /\ getOperationById(log, operationId).id # NoOperation.id
  /\ log' = removeOperationFromLog(log, operationId)
  /\ nreq' = nreq + 1
  /\ last' = NoRequest
  /\ UNCHANGED <<fs, backups, history, monitor, writer>>

\* undoOperation up to its first await: the target and its cascade are read
\* from the log; the call ends here when the target is unknown or UNDONE.
UndoLoad(operationId) ==
  /\ nreq < MaxRequests
  /\ writer.undo.pc = "idle"
  /\ LET operation == getOperationById(log, operationId)
         w == World(fs, log, backups)
     IN IF operation.id = NoOperation.id
        THEN /\ last' = Outcome("undo", IdArg(operationId),
                                Throw(w, "OperationNotFound"))
             /\ UNCHANGED writer
        ELSE IF operation.undoState = UNDO_STATES.UNDONE
        THEN /\ last' = Outcome("undo", IdArg(operationId),
                                Throw(w, "AlreadyInState"))
             /\ UNCHANGED writer
        ELSE /\ last' = NoRequest
             /\ writer' =
                  [writer EXCEPT !.undo =
                     [pc |-> "loaded", operation |-> operation,
                      cascadingOps |-> getOperationsAfter(log, operation)]]
  /\ nreq' = nreq + 1
  /\ UNCHANGED <<log, fs, backups, history, monitor>>

\* undoOperation from its loop on: performUndo of the cascade in reverse
\* order, then of the target, on the operations read before.
UndoPerform ==
  /\ writer.undo.pc = "loaded"
  /\ LET u == writer.undo
         w1 == undoCascading(World(fs, log, backups), Reverse(u.cascadingOps))
         w == IF w1.thrown # "none" THEN w1 ELSE performUndo(w1, u.operation)
     IN /\ fs' = w.fs
        /\ log' = w.log
        /\ backups' = w.backups
        /\ last' = Outcome("undo", IdArg(u.operation.id), w)
  /\ writer' = [writer EXCEPT !.undo = NoRewrite]
  /\ UNCHANGED <<nreq, history, monitor>>

NextUndoSteps ==
  \/ \E f \in Files, c \in LegacyTexts, dt \in Delays : RecordCreate(f, c, dt)
  \/ \E f \in Files, c \in LegacyTexts, dt \in Delays : RecordEdit(f, c, dt)
  \/ \E f \in Files, dt \in Delays : RecordDelete(f, dt)
  \/ \E id \in Ids : DeleteOperation(id)
  \/ \E id \in Ids : UndoLoad(id)
  \/ UndoPerform

SpecUndoSteps == Init /\ [][NextUndoSteps]_vars

\* C27: the state update changes the undoState of the record with that id
\* and fails when no record has the id; an Undo whose state update finds no
\* record does not report success.
C27_UpdateFindsRecord ==
  (/\ last.req = "undo" /\ last.outcome = "none"
   /\ \A i, j \in 1..Len(last.pre.log) :
        last.pre.log[i].id = last.pre.log[j].id => i = j) =>
     \A k \in 1..Len(last.events) :
       last.events[k].kind = "mark" =>
         /\ \E i \in 1..Len(last.pre.log) :
              last.pre.log[i].id = last.events[k].op
         /\ \E i \in 1..Len(log) :
              log[i].id = last.events[k].op
                /\ log[i].undoState = UNDO_STATES.UNDONE

(* ------------------------------------------------------------------------ *)
(* Records appended within the same millisecond: the command line of Spec   *)
(* with appends that may carry the timestamp of the record before them.     *)
(* ------------------------------------------------------------------------ *)
TieDelays == {0, 1}

NextTies ==
  \/ \E f \in Files, c \in LegacyTexts, dt \in TieDelays :
       RecordCreate(f, c, dt)
  \/ \E f \in Files, c \in LegacyTexts, dt \in TieDelays : RecordEdit(f, c, dt)
  \/ \E f \in Files, dt \in TieDelays : RecordDelete(f, dt)
  \/ \E id \in Ids : Undo(id)
  \/ \E id \in Ids : Redo(IdArg(id))

SpecTies == Init /\ [][NextTies]_vars

\* C28: an ACTIVE operation that was appended after the target and carries
\* the same timestamp as the target belongs to the target's undo cascade and
\* is undone before the target.
C28_TiesByInsertion ==
  (ByIdOn("undo") /\ PreTarget.undoState = ACTIVE /\ last.outcome = "none") =>
    \A i \in 1..Len(last.pre.log) :
      LET p == last.pre.log[i] IN
      (/\ i > IndexOfId(last.pre.log, PreTarget.id)
       /\ p.undoState = ACTIVE
       /\ p.timestamp = PreTarget.timestamp) =>
         /\ log[i].undoState = UNDONE
         /\ \E k, l \in 1..Len(last.events) :
              /\ k < l
              /\ last.events[k].kind = "mark" /\ last.events[k].op = p.id
              /\ last.events[l].kind = "mark"
              /\ last.events[l].op = PreTarget.id

(* ------------------------------------------------------------------------ *)
(* A chain of full-content operations on one file, then Undo and Redo calls *)
(* by id of which only those that succeed are taken.                        *)
(* ------------------------------------------------------------------------ *)
UndoDone(operationId) == Undo(operationId) /\ last'.outcome = "none"

RedoDone(operationId) == Redo(IdArg(operationId)) /\ last'.outcome = "none"

NextChain ==
  \/ \E f \in Files, c \in Texts \ {<<>>}, dt \in Delays :
       nreq = 0 /\ RecordCreate(f, c, dt)
  \/ \E f \in Files, c \in Texts \ {<<>>}, dt \in Delays :
       nreq = 0 /\ RecordEdit(f, c, dt)
  \/ \E f \in Files, dt \in Delays : nreq = 0 /\ RecordDelete(f, dt)
  \/ \E id \in Ids : UndoDone(id)
  \/ \E id \in Ids : RedoDone(id)

SpecChain == Init /\ [][NextChain]_vars

\* The content the newest ACTIVE operation of the file left: its after, no
\* file after a delete, and no file (the state before the first operation)
\* when none is ACTIVE.
ChainContent(f) ==
  LET active == {i \in 1..Len(log) :
                   log[i].file = f /\ log[i].undoState = ACTIVE}
      newest == CHOOSE i \in active : \A j \in active : j <= i
  IN IF active = {} THEN NoFile
     ELSE IF log[newest].type = OPERATION_TYPES.FILE_DELETE THEN NoFile
          ELSE log[newest].after

\* C29: after any sequence of successful Undo and Redo calls by id on the
\* chain of full-content operations of a single file, the file's content is
\* the after content of the newest ACTIVE operation of that file, or the
\* content before the first operation when none is ACTIVE.
C29_ContentOfNewestActive ==
  \A f \in Files : fs[f] = ChainContent(f)

\* The operations a request has marked.
Marked == SeqToSet(OpsOfKind(last.events, {"mark"}))

\* C30: if a step of an undo cascade throws, Undo fails: the operations
\* processed before the failing step are UNDONE with their inverse effect
\* applied, and the failing operation and every operation not yet processed,
\* the target included, remain ACTIVE.
C30_ThrowStopsCascade ==
  (/\ ByIdOn("undo")
   /\ PreTarget.undoState = ACTIVE
   /\ \E k \in 1..Len(last.events) : last.events[k].kind = "throw") =>
     /\ last.outcome # "none"
     /\ last.events[Len(last.events)].kind = "throw"
     /\ last.events[Len(last.events)].op \notin Marked
     /\ PreTarget.id \notin Marked
     /\ Len(log) = Len(last.pre.log)
     /\ \A i \in 1..Len(last.pre.log) :
          LET p == last.pre.log[i] IN
          IF p.id \in Marked
          THEN /\ p.undoState = ACTIVE
               /\ p.timestamp > PreTarget.timestamp
               /\ log[i] = [p EXCEPT !.undoState = UNDONE]
          ELSE log[i] = p
     /\ \A k \in 1..Len(last.events) :
          last.events[k].kind \in {"write", "remove"} =>
            last.events[k].op \in Marked

\* A cascade that threw after it had undone a later operation.
C30_Witness ==
  /\ ByIdOn("undo") /\ PreTarget.undoState = ACTIVE
  /\ last.outcome # "none"
  /\ Marked # {}
  /\ fs # last.pre.fs
  /\ \E k \in 1..Len(last.events) :
       /\ last.events[k].kind = "throw"
       /\ last.events[k].op # PreTarget.id

(* ------------------------------------------------------------------------ *)
(* Undo and redo of a string-replace edit as functions of the file's        *)
(* content and of the two strings of the record.                            *)
(* ------------------------------------------------------------------------ *)
MaxReplaceLen == 2

\* The texts over the given characters up to the given length.
RECURSIVE TextsUpTo(_, _)
TextsUpTo(chars, n) ==
  IF n = 0 THEN {<<>>}
  ELSE TextsUpTo(chars, n - 1)
         \cup {<<c>> \o t : c \in chars, t \in TextsUpTo(chars, n - 1)}

ReplaceContents == TextsUpTo({"a", "$"}, MaxReplaceLen)

\* oldString / newString of a record in string-replace mode: logFileEdit
\* takes that mode only when both are non-empty.
ReplaceArgs == ReplaceContents \ {<<>>}

\* The outcome of undoFileEdit / redoFileEdit of the string-replace record
\* with the given strings on a file with the given content.
Replaced(req, f, content, oldString, newString, w) ==
  [req |-> req,
   arg |-> [content |-> content, oldString |-> oldString,
            newString |-> newString],
   outcome |-> w.thrown, result |-> w.fs[f]]

UndoReplace(f, content, oldString, newString, dt) ==
  /\ oldString # newString
  /\ LET operation == logFileEdit(f, Undefined, Undefined, oldString,
                                  newString, dt)
         w == undoFileEdit(World([fs EXCEPT ![f] = content], <<operation>>,
                                 <<>>), operation)
     IN last' = Replaced("undo-replace", f, content, oldString, newString, w)
  /\ UNCHANGED <<log, fs, backups, nreq, history, monitor, writer>>

RedoReplace(f, content, oldString, newString, dt) ==
  /\ oldString # newString
  /\ LET operation == logFileEdit(f, Undefined, Undefined, oldString,
                                  newString, dt)
         w == redoFileEdit(World([fs EXCEPT ![f] = content], <<operation>>,
                                 <<>>), operation)
     IN last' = Replaced("redo-replace", f, content, oldString, newString, w)
  /\ UNCHANGED <<log, fs, backups, nreq, history, monitor, writer>>

NextReplace ==
  \/ \E f \in Files, c \in ReplaceContents, o \in ReplaceArgs,
        n \in ReplaceArgs, dt \in Delays : UndoReplace(f, c, o, n, dt)
  \/ \E f \in Files, c \in ReplaceContents, o \in ReplaceArgs,
        n \in ReplaceArgs, dt \in Delays : RedoReplace(f, c, o, n, dt)

SpecReplace == Init /\ [][NextReplace]_vars

\* The text with the first occurrence of pat replaced by rep as it is.
FirstReplaced(s, pat, rep) ==
  IF IndexOf(s, pat) = 0 THEN s ELSE ReplaceAt(s, IndexOf(s, pat), pat, rep)

\* C31: Undo of a StringReplace edit replaces the first occurrence of
\* newString in the file's current content with oldString and leaves every
\* other character unchanged; Redo replaces the first occurrence of
\* oldString with newString in the same way.
C31_FirstOccurrenceReplaced ==
  /\ (last.req = "undo-replace") =>
       last.result = FirstReplaced(last.arg.content, last.arg.newString,
                                   last.arg.oldString)
  /\ (last.req = "redo-replace") =>
       last.result = FirstReplaced(last.arg.content, last.arg.oldString,
                                   last.arg.newString)

\* ---------------------------------------------------------------------------
\* DiffEngine on contents with two changed parts.
\* ---------------------------------------------------------------------------

MaxTail == 2

\* The part the old and the new content share between the changed parts.
Middle == <<"m">>

\* An old content: a run of a, the shared part, a short run of b.
OldContents ==
  {Run("a", i) \o Middle \o Run("b", j) : i \in 0..MaxRun, j \in 0..MaxTail}

\* A new content: a run of c, the shared part, a short run of d.
NewContents ==
  {Run("c", i) \o Middle \o Run("d", j) : i \in 0..MaxRun, j \in 0..MaxTail}

NextEdits ==
  \E f \in DiffFiles, old \in OldContents, new \in NewContents,
     dt \in Delays :
    Analyze(f, old, new, dt)

SpecEdits == Init /\ [][NextEdits]_vars

\* The content after the records, oldest first, each replacing its oldString
\* by its newString where the record places it: every text of the model is
\* one line, the line every record names, and oldString is looked up in it.
RECURSIVE ApplyEdits(_, _)
ApplyEdits(operations, content) ==
  IF operations = <<>> THEN content
  ELSE ApplyEdits(Tail(operations),
                  FirstReplaced(content, Head(operations).oldString,
                                Head(operations).newString))

\* The content after the records are reverted, newest first.
RECURSIVE RevertEdits(_, _)
RevertEdits(operations, content) ==
  IF operations = <<>> THEN content
  ELSE RevertEdits(SubSeq(operations, 1, Len(operations) - 1),
                   FirstReplaced(content,
                                 operations[Len(operations)].newString,
                                 operations[Len(operations)].oldString))

\* C32: for two different non-null contents, applying the FILE_EDIT records
\* DiffEngine emits to the old content, each at its recorded position, yields
\* exactly the new content, and reverting them newest first on the new
\* content yields the old content.
C32_EditsRoundTrip ==
  (/\ last.req = "analyze"
   /\ last.arg.oldContent # Undefined
   /\ last.arg.newContent # Undefined
   /\ last.arg.oldContent # last.arg.newContent) =>
    /\ \A i \in 1..Len(last.operations) :
         last.operations[i].type = "FILE_EDIT"
    /\ ApplyEdits(last.operations, last.arg.oldContent) = last.arg.newContent
    /\ RevertEdits(last.operations, last.arg.newContent) = last.arg.oldContent

\* The changes the monitor has handled by appending one FILE_EDIT descriptor:
\* with contents shorter than EDIT_THRESHOLD no edit is significant, so the
\* descriptor is the whole-file one.
HandledFallbacks ==
  {h \in SeqToSet(history) :
     h.kind = "change" /\ h.count = 1 /\ log[h.first].type = "FILE_EDIT"}

\* C33: when no edit of a change from old to new is significant, exactly one
\* edit record covering the whole old and the whole new content is logged,
\* and Undo of that record (ACTIVE, the newest of the log) succeeds and
\* leaves the file with the old content.
C33_FallbackUndoRestores ==
  /\ \A h \in HandledFallbacks :
       \/ log[h.first].before = h.cached
       \/ log[h.first].oldString = h.cached
  /\ (/\ ByIdOn("undo")
      /\ PreTarget.undoState \in {ACTIVE, ""}
      /\ PreTarget.id = last.pre.log[Len(last.pre.log)].id
      /\ \E h \in HandledFallbacks :
           h.first = IndexOfId(log, PreTarget.id)) =>
       LET h == HandledFor(IndexOfId(log, PreTarget.id))
       IN /\ last.outcome = "none"
          /\ fs[h.file] = h.cached

\* ---------------------------------------------------------------------------
\* The monitor with the life time of its cache entries: fileCache is a
\* NodeCache with stdTTL 3600, so an entry that is an hour old is gone.  The
\* tools act while the watcher's queue has room, so no notification is lost.
\* ---------------------------------------------------------------------------

\* The cache entry of a file expires.
Expire(f) ==
  /\ monitor.fileCache[f] # Undefined
  /\ monitor' = [monitor EXCEPT !.fileCache[f] = Undefined]
  /\ last' = NoRequest
  /\ UNCHANGED <<log, fs, backups, nreq, history, writer>>

QueueHasRoom == Len(monitor.events) < MaxEvents

NextCache ==
  \/ MonitorStart
  \/ MonitorStop
  \/ \E f \in Files, c \in MonitorTexts : QueueHasRoom /\ ToolWrite(f, c)
  \/ \E f \in Files : QueueHasRoom /\ ToolUnlink(f)
  \/ \E f \in Files : Expire(f)
  \/ \E dt \in Delays : handleFileAdd(dt)
  \/ \E dt \in Delays : handleFileChange(dt)
  \/ \E dt \in Delays : handleFileDelete(dt)

SpecCache == Init /\ [][NextCache]_vars

\* A step in which the monitor handles the change notification at the head
\* of its queue (a stop also empties the queue, and flips isActive).
ChangeHandled ==
  /\ monitor.events # <<>>
  /\ Head(monitor.events).kind = "change"
  /\ monitor'.events = Tail(monitor.events)
  /\ monitor'.isActive = monitor.isActive

RemoveHandled ==
  /\ monitor.events # <<>>
  /\ Head(monitor.events).kind = "unlink"
  /\ monitor'.events = Tail(monitor.events)
  /\ monitor'.isActive = monitor.isActive

\* C35: when the monitor handles a remove event of a file, it appends one
\* delete record carrying the cached content if the file has a cache entry,
\* whatever that content is, and appends nothing if it has none; afterwards
\* the file has no cache entry.
C35_RemoveLogsCached ==
  [][RemoveHandled =>
       LET filePath == Head(monitor.events).file
           cached == monitor.fileCache[filePath]
       IN /\ IF cached = Undefined THEN log' = log
             ELSE /\ Len(log') = Len(log) + 1
                  /\ SubSeq(log', 1, Len(log)) = log
                  /\ log'[Len(log')].type \in {"FILE_DELETE", "file_delete"}
                  /\ \/ log'[Len(log')].content = cached
                     \/ log'[Len(log')].before = cached
          /\ monitor'.fileCache[filePath] = Undefined]_vars

\* ---------------------------------------------------------------------------
\* Overlapping handlers of 'change'.  The callback of setupEventHandlers
\* calls handleFileChange without awaiting it, so a second call starts while
\* the first waits for its `await fs.readFile`.  A readFile gets the content
\* the file has at some moment between its call and its completion, and two
\* reads complete in either order.  From the completion of its read to its
\* fileCache.set a handler awaits only logOperation, which appends
\* synchronously, so that part runs without another handler in between.
\* monitor.pending holds the handlers that wait for their read, with the
\* content read once the read has happened.
\* ---------------------------------------------------------------------------
MaxPending == 2

\* The read of a waiting handler has not happened yet.
Unread == <<"unread">>

\* s without its i-th element.
RemoveAt(s, i) == SubSeq(s, 1, i - 1) \o SubSeq(s, i + 1, Len(s))

\* handleFileChange(filePath) up to the call of fs.readFile.
BeginFileChange ==
  /\ monitor.events # <<>>
  /\ Head(monitor.events).kind = "change"
  /\ Len(monitor.pending) < MaxPending
  /\ monitor' =
       [monitor EXCEPT !.events = Tail(@),
                       !.pending =
                         IF isWatchableFile(Head(monitor.events).file)
                         THEN Append(@, [file |-> Head(monitor.events).file,
                                         read |-> Unread])
                         ELSE @]
  /\ last' = NoRequest
  /\ UNCHANGED <<log, fs, backups, nreq, history, writer>>

\* fs.readFile of the i-th waiting handler reads the file.
ReadFile(i) ==
  /\ i \in 1..Len(monitor.pending)
  /\ monitor.pending[i].read = Unread
  /\ monitor' = [monitor EXCEPT !.pending[i].read =
                                   fs[monitor.pending[i].file]]
  /\ last' = NoRequest
  /\ UNCHANGED <<log, fs, backups, nreq, history, writer>>

\* handleFileChange of the i-th waiting handler from the completion of its
\* readFile.
CompleteFileChange(i, dt) ==
  /\ i \in 1..Len(monitor.pending)
  /\ monitor.pending[i].read # Unread
  /\ LET filePath == monitor.pending[i].file
         newContent == monitor.pending[i].read
         cached == monitor.fileCache[filePath]
         oldContent == IF cached = Undefined THEN <<>> ELSE cached
         operations == analyzeChanges(filePath, oldContent, newContent, dt)
     IN IF newContent = NoFile \/ Len(newContent) > maxFileSize
           \/ operations = <<>>
        THEN /\ monitor' = [monitor EXCEPT !.pending = RemoveAt(@, i)]
             /\ UNCHANGED <<log, history>>
        ELSE /\ Len(log) + Len(operations) <= MaxMonitorOps
             /\ Len(history) < MaxHandled
             /\ log' = logOperations(operations, dt)
             /\ history' = Append(history, Handled("change", filePath, cached,
                                                   operations))
             /\ monitor' = [monitor EXCEPT !.pending = RemoveAt(@, i),
                                           !.fileCache[filePath] = newContent]
  /\ last' = NoRequest
  /\ UNCHANGED <<fs, backups, nreq, writer>>

NextOverlap ==
  \/ MonitorStart
  \/ \E f \in Files, c \in MonitorTexts \ {<<>>} :
       QueueHasRoom /\ ToolWrite(f, c)
  \/ \E dt \in Delays : handleFileAdd(dt)
  \/ BeginFileChange
  \/ \E i \in 1..MaxPending : ReadFile(i)
  \/ \E i \in 1..MaxPending, dt \in Delays : CompleteFileChange(i, dt)

SpecOverlap == Init /\ [][NextOverlap]_vars

\* The content a record of the monitor leaves the file with.
NewContentOf(record) ==
  IF record.type = "FILE_EDIT" THEN record.newString ELSE record.content

\* C36: with change events of one file handled in overlapping callbacks, the
\* records of the file form a chain (each edit record was diffed against the
\* new content of the record before it) and, once every callback has
\* finished and no event waits, the cache entry of the file is the content
\* the file has on disk.
C36_OverlapKeepsChain ==
  /\ \A i \in 2..Len(log) :
       (log[i].type = "FILE_EDIT") =>
         log[i].oldString = NewContentOf(log[i - 1])
  /\ (monitor.isActive /\ monitor.events = <<>> /\ monitor.pending = <<>>) =>
       \A f \in Files : (fs[f] # NoFile) => monitor.fileCache[f] = fs[f]

\* ---------------------------------------------------------------------------
\* Overlapping calls of start() on one monitor.  start() tests isActive,
\* awaits initializeFileCache() and only then creates the watcher, sets the
\* handlers and sets isActive; from the completion of the scan to its return
\* it awaits nothing.  In this specification monitor.pending holds the calls
\* of start(), each with where it is: waiting for its scan ("scan"), or
\* returned ("true", "false"); a call that returned true has scanned the
\* tree and created a watcher.
\* ---------------------------------------------------------------------------

\* start() up to `await this.initializeFileCache()`.
StartCall ==
  /\ nreq < MaxCalls
  /\ nreq' = nreq + 1
  /\ IF monitor.isActive
     THEN /\ monitor' = [monitor EXCEPT !.pending =
                            Append(@, [call |-> "start", at |-> "false"])]
          /\ last' = Returned("start", [result |-> FALSE])
     ELSE /\ monitor' = [monitor EXCEPT !.pending =
                            Append(@, [call |-> "start", at |-> "scan"])]
          /\ last' = NoRequest
  /\ UNCHANGED <<log, fs, backups, history, writer>>

\* start() from the completion of the scan: the cache has the content of the
\* watchable files, chokidar.watch makes a watcher, isActive becomes true and
\* the call returns true.
StartResume(i) ==
  /\ i \in 1..Len(monitor.pending)
  /\ monitor.pending[i].at = "scan"
  /\ monitor' = [start([monitor EXCEPT !.isActive = FALSE], fs).monitor
                   EXCEPT !.events = monitor.events,
                          !.pending[i].at = "true"]
  /\ last' = Returned("start", [result |-> TRUE])
  /\ UNCHANGED <<log, fs, backups, nreq, history, writer>>

\* The calls of start() that returned true; each of them has made a watcher,
\* and nothing closes a watcher in this specification.
StartsSucceeded ==
  LET succeeded(c) == c.at = "true"
  IN Len(SelectSeq(monitor.pending, succeeded))

\* Every watcher reports a change of the tree to the handlers it was given.
NotifyEach(kind, filePath) ==
  [monitor EXCEPT !.events =
     @ \o [i \in 1..StartsSucceeded |-> [kind |-> kind, file |-> filePath]]]

\* A tool writes a file of the tree.
TreeWrite(f, content) ==
  /\ fs[f] # content
  /\ Len(monitor.events) + StartsSucceeded <= MaxPending
  /\ fs' = [fs EXCEPT ![f] = content]
  /\ monitor' = NotifyEach(IF fs[f] = NoFile THEN "add" ELSE "change", f)
  /\ last' = NoRequest
  /\ UNCHANGED <<log, backups, nreq, history, writer>>

\* A tool removes a file of the tree.
TreeUnlink(f) ==
  /\ fs[f] # NoFile
  /\ Len(monitor.events) + StartsSucceeded <= MaxPending
  /\ fs' = [fs EXCEPT ![f] = NoFile]
  /\ monitor' = NotifyEach("unlink", f)
  /\ last' = NoRequest
  /\ UNCHANGED <<log, backups, nreq, history, writer>>

NextStart ==
  \/ StartCall
  \/ \E i \in 1..MaxCalls : StartResume(i)
  \/ \E f \in Files, c \in MonitorTexts : TreeWrite(f, c)
  \/ \E f \in Files : TreeUnlink(f)
  \/ \E dt \in Delays : handleFileAdd(dt)
  \/ \E dt \in Delays : handleFileChange(dt)
  \/ \E dt \in Delays : handleFileDelete(dt)

SpecStart == Init /\ [][NextStart]_vars

\* C37: of the calls of start() on a monitor that is never stopped at most
\* one succeeds, so that at most one watcher exists and the tree is scanned
\* once.
C37_OneStartSucceeds == StartsSucceeded <= 1

\* ---------------------------------------------------------------------------
\* Undo and Redo in a directory the monitor watches.  The operations are
\* recorded by the session before the monitor is started; while it is
\* active only `gcundo undo` and `gcundo redo` touch the files, so every
\* notification of the watcher is for a write or a removal they made.
\* ---------------------------------------------------------------------------
NextWatched ==
  \/ \E f \in Files, c \in LegacyTexts, dt \in Delays :
       ~monitor.isActive /\ RecordCreate(f, c, dt)
  \/ \E f \in Files, c \in LegacyTexts, dt \in Delays :
       ~monitor.isActive /\ RecordEdit(f, c, dt)
  \/ \E f \in Files, dt \in Delays : ~monitor.isActive /\ RecordDelete(f, dt)
  \/ MonitorStart
  \/ \E id \in MonitorIds : MonitoredUndo(id)
  \/ \E id \in MonitorIds : MonitoredRedo(id)
  \/ \E dt \in Delays : handleFileAdd(dt)
  \/ \E dt \in Delays : handleFileChange(dt)
  \/ \E dt \in Delays : handleFileDelete(dt)

SpecWatched == Init /\ [][NextWatched]_vars

\* C38: while the monitor is active, the file writes and removals of Undo
\* and Redo are not captured as new operations: with nothing else touching
\* the files, the number of log records does not change.
C38_UndoNotCaptured ==
  [][monitor.isActive => (Len(log') = Len(log))]_vars

\* ---------------------------------------------------------------------------
\* `gcundo redo` without an argument (redoLast).
\* ---------------------------------------------------------------------------

\* ops.sort((a, b) => new Date(b.timestamp) - new Date(a.timestamp))[0]: the
\* sort is stable, so this is the first of the operations with the latest
\* timestamp.
NewestFirst(ops) ==
  ops[CHOOSE i \in 1..Len(ops) :
        /\ \A j \in 1..Len(ops) : ops[j].timestamp <= ops[i].timestamp
        /\ \A j \in 1..(i - 1) : ops[j].timestamp < ops[i].timestamp]

\* redoLast()
redoLast(w) ==
  LET undoneOps == getUndoneOperations(w.log)
  IN IF undoneOps = <<>> THEN Throw(w, "NoOperationsToRedo")
     ELSE redoOperation(w, IdArg(NewestFirst(undoneOps).id))

\* gcundo redo.  For inspection the request keeps the operation redoLast
\* chose (0 if none) and, when the step before it was a successful undo,
\* the operation that undo marked last.
RedoLast ==
  /\ nreq < MaxRequests
  /\ LET w == redoLast(World(fs, log, backups))
         undoneOps == getUndoneOperations(log)
         chosen == IF undoneOps = <<>> THEN 0 ELSE NewestFirst(undoneOps).id
         marked == IF last.req = "undo"
                   THEN OpsOfKind(last.events, {"mark"}) ELSE <<>>
     IN /\ fs' = w.fs
        /\ log' = w.log
        /\ backups' = w.backups
        /\ last' = [req |-> "redo-last", arg |-> IdArg(chosen),
                    outcome |-> w.thrown, events |-> w.events,
                    pre |-> [log |-> log, fs |-> fs, backups |-> backups],
                    follows |-> IF marked = <<>> THEN NoRequest
                                ELSE [req |-> "undo",
                                      undone |-> marked[Len(marked)]]]
  /\ nreq' = nreq + 1
  /\ UNCHANGED <<history, monitor, writer>>

NextRedoLast ==
  \/ \E f \in Files, c \in LegacyTexts, dt \in Delays : RecordCreate(f, c, dt)
  \/ \E f \in Files, c \in LegacyTexts, dt \in Delays : RecordEdit(f, c, dt)
  \/ \E id \in Ids : Undo(id)
  \/ RedoLast

SpecRedoLast == Init /\ [][NextRedoLast]_vars

\* C39: Redo without an argument, called after an undo (plain or cascading,
\* and whatever was undone and redone before it), redoes the operation that
\* undo marked UNDONE last.
C39_RedoLastIsLastUndone ==
  (last.req = "redo-last" /\ last.follows.req = "undo") =>
    /\ last.arg.value = last.follows.undone
    /\ (last.outcome = "none") =>
         OpsOfKind(last.events, {"mark"}) = <<last.follows.undone>>

\* ---------------------------------------------------------------------------
\* A log with records that have no undoState (written by the logger of
\* part_003) next to records that have one, under `gcundo undo/redo <id>`.
\* ---------------------------------------------------------------------------
NextMixed ==
  \/ \E f \in Files, c \in LegacyTexts, dt \in Delays :
       LegacyRecordCreate(f, c, dt)
  \/ \E f \in Files, c \in LegacyTexts, dt \in Delays :
       LegacyRecordEdit(f, c, dt)
  \/ \E f \in Files, c \in LegacyTexts, dt \in Delays : RecordCreate(f, c, dt)
  \/ \E f \in Files, c \in LegacyTexts, dt \in Delays : RecordEdit(f, c, dt)
  \/ \E id \in Ids : Undo(id)
  \/ \E id \in Ids : Redo(IdArg(id))

SpecMixed == Init /\ [][NextMixed]_vars

\* A record counts as ACTIVE: its undoState is ACTIVE or it has none.
CountsAsActive(record) == record.undoState \in {ACTIVE, ""}

\* C40: a record without undoState is treated as ACTIVE everywhere: it is in
\* the ACTIVE view, Undo accepts it as a target, and a successful Undo of an
\* earlier target leaves it UNDONE like every later record that is ACTIVE.
C40_AbsentStateIsActive ==
  /\ \A i \in 1..Len(log) :
       (log[i].undoState = "") =>
         \E j \in 1..Len(getActiveOperations(log)) :
           getActiveOperations(log)[j] = log[i]
  /\ (ByIdOn("undo") /\ PreTarget.undoState = "") =>
       last.outcome # "AlreadyInState"
  /\ (ByIdOn("undo") /\ CountsAsActive(PreTarget) /\ last.outcome = "none") =>
       \A i \in 1..Len(last.pre.log) :
         LET p == last.pre.log[i] IN
         (CountsAsActive(p) /\ p.timestamp > PreTarget.timestamp)
           => log[i].undoState = UNDONE

====
